---- MODULE Spec2Model ----
(***************************************************************************)
(* State-machine model of the Wikipedia fact checker:                      *)
(*   src/fact_checker.py   WikipediaFactChecker (search, fetch, extract,   *)
(*                         analyze_evidence, run_fact_check*,              *)
(*                         run_fact_check_with_analyzer)                   *)
(*   src/llm_analyzer.py   _parse_llm_response, LLMAnalyzer                *)
(*   src/config.py         DEFAULTS                                        *)
(*                                                                         *)
(* Python strings that the code inspects character by character (claims,   *)
(* page bodies, sentences, citations) are sequences of one-character       *)
(* strings.  Optional values (None or a value) are <<>> or <<value>>.      *)
(***************************************************************************)
EXTENDS Integers, Sequences, FiniteSets, TLC

(***************************************************************************)
(* Bounds of the model.                                                    *)
(***************************************************************************)
\* longest search result list the Retriever returns
MaxResults == 2
\* how far outside [0, 100] a backend confidence may lie
ConfOver == 1
\* longest evidence list analyze_evidence is called with directly
MaxEvidence == 2
\* longest claim list run_multi_claim_fact_check is called with
MaxBatch == 2

(***************************************************************************)
(* Python str primitives on character sequences.                           *)
(***************************************************************************)
None == <<>>

Some(x) == <<x>>

\* str.lower() on one character
LowerChar(c) ==
  CASE c = "A" -> "a" [] c = "B" -> "b" [] c = "C" -> "c" [] c = "D" -> "d"
    [] c = "E" -> "e" [] c = "F" -> "f" [] c = "G" -> "g" [] c = "H" -> "h"
    [] c = "I" -> "i" [] c = "J" -> "j" [] c = "K" -> "k" [] c = "L" -> "l"
    [] c = "M" -> "m" [] c = "N" -> "n" [] c = "O" -> "o" [] c = "P" -> "p"
    [] c = "Q" -> "q" [] c = "R" -> "r" [] c = "S" -> "s" [] c = "T" -> "t"
    [] c = "U" -> "u" [] c = "V" -> "v" [] c = "W" -> "w" [] c = "X" -> "x"
    [] c = "Y" -> "y" [] c = "Z" -> "z" [] OTHER -> c

\* str.upper() on one character
UpperChar(c) ==
  CASE c = "a" -> "A" [] c = "b" -> "B" [] c = "c" -> "C" [] c = "d" -> "D"
    [] c = "e" -> "E" [] c = "f" -> "F" [] c = "g" -> "G" [] c = "h" -> "H"
    [] c = "i" -> "I" [] c = "j" -> "J" [] c = "k" -> "K" [] c = "l" -> "L"
    [] c = "m" -> "M" [] c = "n" -> "N" [] c = "o" -> "O" [] c = "p" -> "P"
    [] c = "q" -> "Q" [] c = "r" -> "R" [] c = "s" -> "S" [] c = "t" -> "T"
    [] c = "u" -> "U" [] c = "v" -> "V" [] c = "w" -> "W" [] c = "x" -> "X"
    [] c = "y" -> "Y" [] c = "z" -> "Z" [] OTHER -> c

\* str.upper()
Upper(s) == [i \in 1..Len(s) |-> UpperChar(s[i])]

\* str.lower()
Lower(s) == [i \in 1..Len(s) |-> LowerChar(s[i])]

\* the characters str.split(), str.strip() and the regex class \s treat as space
IsSpace(c) == c \in {" ", "\t", "\n"}

\* s[i:] with a 1-based first index
From(s, i) == SubSeq(s, i, Len(s))

\* s.startswith(p, i-1): p occurs in s at 1-based position i
OccursAt(p, s, i) ==
  /\ i >= 1
  /\ i + Len(p) - 1 <= Len(s)
  /\ \A k \in 1..Len(p) : s[i + k - 1] = p[k]

\* the Python test `p in s` on strings
Contains(s, p) == \E i \in 1..(Len(s) + 1) : OccursAt(p, s, i)

\* s.find(p) as a 1-based position, 0 when p does not occur
Find(s, p) ==
  IF Contains(s, p)
  THEN CHOOSE i \in 1..(Len(s) + 1) :
         /\ OccursAt(p, s, i)
         /\ \A j \in 1..(i - 1) : ~OccursAt(p, s, j)
  ELSE 0

RECURSIVE LStrip(_)
\* str.lstrip()
LStrip(s) == IF s # <<>> /\ IsSpace(Head(s)) THEN LStrip(Tail(s)) ELSE s

RECURSIVE RStrip(_)
\* str.rstrip()
RStrip(s) ==
  IF s # <<>> /\ IsSpace(s[Len(s)]) THEN RStrip(SubSeq(s, 1, Len(s) - 1)) ELSE s

\* str.strip()
Strip(s) == RStrip(LStrip(s))

\* str.replace(c, "") for a one-character c
RemoveChar(s, c) == SelectSeq(s, LAMBDA x : x # c)

RECURSIVE SplitWS(_, _)
\* str.split(): the maximal runs of non-space characters, in order
\* (cur is the run being read)
SplitWS(s, cur) ==
  IF s = <<>> THEN (IF cur = <<>> THEN <<>> ELSE <<cur>>)
  ELSE IF IsSpace(Head(s))
       THEN (IF cur = <<>> THEN <<>> ELSE <<cur>>) \o SplitWS(Tail(s), <<>>)
       ELSE SplitWS(Tail(s), Append(cur, Head(s)))

Split(s) == SplitWS(s, <<>>)

RECURSIVE SplitSentences(_, _)
\* re.split(r"\.\s+", text): cut at every period followed by one or more
\* space characters; the period and the spaces are dropped, empty pieces kept
SplitSentences(s, cur) ==
  IF s = <<>> THEN <<cur>>
  ELSE IF Head(s) = "." /\ Len(s) >= 2 /\ IsSpace(s[2])
       THEN <<cur>> \o SplitSentences(LStrip(Tail(s)), <<>>)
       ELSE SplitSentences(Tail(s), Append(cur, Head(s)))

\* the elements of a sequence
Range(s) == {s[i] : i \in 1..Len(s)}

\* s[:n] for n >= 0
Take(s, n) == SubSeq(s, 1, IF n < Len(s) THEN n ELSE Len(s))

(***************************************************************************)
(* Configuration (src/config.py).                                          *)
(***************************************************************************)
\* DEFAULTS["wikipedia"]["max_articles"]
default_max_articles == 5

\* DEFAULTS["fact_check"]["max_evidence_sentences"]
default_max_evidence_sentences == 10

\* DEFAULTS["fact_check"]["min_keyword_length"]
default_min_keyword_length == 3

\* "keyword"
S_keyword == <<"k", "e", "y", "w", "o", "r", "d">>

\* "llm"
S_llm == <<"l", "l", "m">>

\* "LLM"
S_LLM == <<"L", "L", "M">>

\* "openai"
S_openai == <<"o", "p", "e", "n", "a", "i">>

\* "ollama"
S_ollama == <<"o", "l", "l", "a", "m", "a">>

\* the DEFAULTS table, restricted to the keys the pipeline reads
DEFAULTS ==
  [ max_articles           |-> default_max_articles,
    max_evidence_sentences |-> default_max_evidence_sentences,
    min_keyword_length     |-> default_min_keyword_length,
    analyzer_mode          |-> S_keyword,
    provider               |-> S_openai,
    confidence_enabled     |-> TRUE ]

\* a config.yaml that overrides every key the pipeline reads
OverrideConfig ==
  [ max_articles           |-> 1,
    max_evidence_sentences |-> 1,
    min_keyword_length     |-> default_min_keyword_length,
    analyzer_mode          |-> S_LLM,
    provider               |-> S_ollama,
    confidence_enabled     |-> FALSE ]

\* the merged configurations get_config() may hold
Configs == {DEFAULTS, OverrideConfig}

\* a pathlib.Path (a str given as a path is kind "str": it has no exists())
Path(name) == [kind |-> "Path", name |-> name]

\* config._CONFIG_PATH
CONFIG_PATH == Path("config.yaml")

\* the config_path arguments of load_config, get_config and the constructor
PathArgs ==
  {<<>>, <<Path("other.yaml")>>, <<[kind |-> "str", name |-> "other.yaml"]>>}

\* what is found at a path: no file, a file that cannot be loaded as a
\* mapping, or a YAML mapping, given by the keys it sets
FileStates ==
  { [state |-> "missing", data |-> <<>>],
    [state |-> "invalid", data |-> <<>>],
    [state |-> "ok", data |-> <<>>],
    [state |-> "ok", data |-> [max_articles |-> 1]],
    [state |-> "ok", data |-> [analyzer_mode |-> <<"L", "L", "M">>]],
    [state |-> "ok", data |-> [confidence_enabled |-> FALSE]],
    [state |-> "ok",
     data |-> [max_evidence_sentences |-> 1, min_keyword_length |-> 3]],
    [state |-> "ok", data |-> OverrideConfig] }

\* _deep_merge writing into base itself, not into a copy of it
deep_merge_in_place(base, override) ==
  LET merged == [k \in DOMAIN base \cup DOMAIN override |->
                   IF k \in DOMAIN override THEN override[k] ELSE base[k]]
  IN  [result |-> merged, base |-> merged]

\* config._deep_merge(base, override) on the keys the pipeline reads, each
\* the leaf of a section: the merged dict, and base as the call leaves it
deep_merge(base, override) ==
  LET merged == [k \in DOMAIN base \cup DOMAIN override |->
                   IF k \in DOMAIN override THEN override[k] ELSE base[k]]
  IN  [result |-> merged, base |-> base]

\* the state of the config module after a call: exception, _CONFIG,
\* DEFAULTS, the file system requests made and the path loaded from
ConfigOutcome(exc, cfg, dflt, requests, source) ==
  [exc |-> exc, CONFIG |-> cfg, DEFAULTS |-> dflt, requests |-> requests,
   source |-> source]

\* config.load_config(config_path) with the module in the state
\* (cfg, dflt, source) and the given file at the path
LoadConfig(cfg, dflt, source, config_path, file) ==
  LET path == IF config_path # <<>> THEN config_path[1] ELSE CONFIG_PATH
  IN  IF path.kind = "str"
      THEN ConfigOutcome(<<[type |-> "AttributeError", msg |-> <<>>]>>,
                         cfg, dflt, <<>>, source)
      ELSE IF file.state = "missing"
      THEN ConfigOutcome(<<>>, dflt, dflt,
                         <<[ev |-> "exists", arg |-> path]>>, <<path>>)
      ELSE IF file.state = "invalid"
      THEN ConfigOutcome(<<>>, dflt, dflt,
                         <<[ev |-> "exists", arg |-> path],
                           [ev |-> "open", arg |-> path]>>, <<path>>)
      ELSE LET m == deep_merge(dflt, file.data)
           IN  ConfigOutcome(<<>>, m.result, m.base,
                             <<[ev |-> "exists", arg |-> path],
                               [ev |-> "open", arg |-> path]>>, <<path>>)

\* get_config without the test `_CONFIG is None`
GetConfig_no_cache_test(cfg, dflt, source, config_path, file) ==
  LoadConfig(cfg, dflt, source, config_path, file)

\* config.get_config(config_path): load only when nothing is cached
GetConfig(cfg, dflt, source, config_path, file) ==
  IF cfg = <<>>
  THEN LoadConfig(cfg, dflt, source, config_path, file)
  ELSE ConfigOutcome(<<>>, cfg, dflt, <<>>, source)

(***************************************************************************)
(* The verdict literals (src/llm_analyzer.py:24, fact_checker.py:194-205). *)
(***************************************************************************)
\* "TRUE"
V_TRUE == <<"T", "R", "U", "E">>

\* "FALSE"
V_FALSE == <<"F", "A", "L", "S", "E">>

\* "MIXED"
V_MIXED == <<"M", "I", "X", "E", "D">>

\* "INSUFFICIENT_EVIDENCE"
V_INSUFFICIENT_EVIDENCE == <<"I", "N", "S", "U", "F", "F", "I", "C", "I", "E", "N", "T", "_", "E", "V", "I", "D", "E", "N", "C", "E">>

\* llm_analyzer.VERDICTS
VERDICTS == {V_TRUE, V_FALSE, V_MIXED, V_INSUFFICIENT_EVIDENCE}

(***************************************************************************)
(* String literals of analyze_evidence (src/fact_checker.py:170-191).      *)
(***************************************************************************)
\* "not"
W_not == <<"n", "o", "t">>

\* "no"
W_no == <<"n", "o">>

\* "never"
W_never == <<"n", "e", "v", "e", "r">>

\* "didn't"
W_didnt == <<"d", "i", "d", "n", "'", "t">>

\* "doesn't"
W_doesnt == <<"d", "o", "e", "s", "n", "'", "t">>

\* "wasn't"
W_wasnt == <<"w", "a", "s", "n", "'", "t">>

\* "weren't"
W_werent == <<"w", "e", "r", "e", "n", "'", "t">>

\* "false"
W_false == <<"f", "a", "l", "s", "e">>

\* "incorrect"
W_incorrect == <<"i", "n", "c", "o", "r", "r", "e", "c", "t">>

\* "neither"
W_neither == <<"n", "e", "i", "t", "h", "e", "r">>

\* "none"
W_none == <<"n", "o", "n", "e">>

\* "is in"
S_is_in == <<"i", "s", " ", "i", "n">>

\* "located in"
S_located_in == <<"l", "o", "c", "a", "t", "e", "d", " ", "i", "n">>

\* "in "
S_in_ == <<"i", "n", " ">>

\* "china"
S_china == <<"c", "h", "i", "n", "a">>

negation_words ==
  { W_not, W_no, W_never, W_didnt, W_doesnt, W_wasnt, W_werent,
    W_false, W_incorrect, W_neither, W_none }

(***************************************************************************)
(* SentenceExtractor and HeuristicClassifier.                              *)
(***************************************************************************)
\* extract_relevant_sentences matching on every claim keyword, whatever its
\* length
extract_relevant_sentences_any_length(cfg, text, claim) ==
  IF text = <<>> \/ claim = <<>> THEN <<>>
  ELSE LET claim_keywords == Range(Split(Lower(claim)))
           sentences      == SplitSentences(text, <<>>)
           max_sentences  == cfg.max_evidence_sentences
           keyword_hit(sentence) ==
             \E kw \in claim_keywords : Contains(Lower(sentence), kw)
           relevant       == SelectSeq(sentences, keyword_hit)
       IN  Take(relevant, max_sentences)

\* WikipediaFactChecker.extract_relevant_sentences
extract_relevant_sentences(cfg, text, claim) ==
  IF text = <<>> \/ claim = <<>> THEN <<>>
  ELSE LET claim_keywords == Range(Split(Lower(claim)))
           sentences      == SplitSentences(text, <<>>)
           min_len        == cfg.min_keyword_length
           max_sentences  == cfg.max_evidence_sentences
           keyword_hit(sentence) ==
             \E kw \in claim_keywords :
               Len(kw) >= min_len /\ Contains(Lower(sentence), kw)
           relevant       == SelectSeq(sentences, keyword_hit)
       IN  Take(relevant, max_sentences)

\* claim_words keeping the words of min_keyword_length characters too, as
\* the extractor does
claim_words_at_least(cfg, claim) ==
  { w \in Range(Split(Lower(claim))) : Len(w) >= cfg.min_keyword_length }

\* the words of the claim the classifier matches on
claim_words(cfg, claim) ==
  { w \in Range(Split(Lower(claim))) : Len(w) > cfg.min_keyword_length }

\* SentenceClass with the negation words matched against the whitespace-
\* separated words of the sentence, not as substrings
SentenceClass_negation_whole_word(cfg, sentence, claim) ==
  LET claim_lower     == Lower(claim)
      sentence_lower  == Lower(sentence)
      has_claim_keyword ==
        \E kw \in claim_words(cfg, claim) : Contains(sentence_lower, kw)
      has_negation    ==
        \E neg \in negation_words : neg \in Range(Split(sentence_lower))
      pos             == Find(claim_lower, S_in_)
      location        ==
        Strip(RemoveChar(From(claim_lower, pos + Len(S_in_)), "?"))
  IN  IF has_claim_keyword /\ ~has_negation THEN "supporting"
      ELSE IF has_claim_keyword /\ has_negation THEN "contradicting"
      ELSE IF Contains(claim_lower, S_is_in) \/ Contains(claim_lower, S_located_in)
           THEN IF /\ pos > 0
                   /\ location # <<>>
                   /\ Contains(sentence_lower, S_china)
                   /\ location # S_china
                THEN "contradicting"
                ELSE "discarded"
      ELSE "discarded"

\* SentenceClass without the test location != "china"
SentenceClass_no_location_test(cfg, sentence, claim) ==
  LET claim_lower     == Lower(claim)
      sentence_lower  == Lower(sentence)
      has_claim_keyword ==
        \E kw \in claim_words(cfg, claim) : Contains(sentence_lower, kw)
      has_negation    ==
        \E neg \in negation_words : Contains(sentence_lower, neg)
      pos             == Find(claim_lower, S_in_)
      location        ==
        Strip(RemoveChar(From(claim_lower, pos + Len(S_in_)), "?"))
  IN  IF has_claim_keyword /\ ~has_negation THEN "supporting"
      ELSE IF has_claim_keyword /\ has_negation THEN "contradicting"
      ELSE IF Contains(claim_lower, S_is_in) \/ Contains(claim_lower, S_located_in)
           THEN IF /\ pos > 0
                   /\ location # <<>>
                   /\ Contains(sentence_lower, S_china)
                THEN "contradicting"
                ELSE "discarded"
      ELSE "discarded"

\* the list analyze_evidence appends one evidence sentence to
SentenceClass(cfg, sentence, claim) ==
  LET claim_lower     == Lower(claim)
      sentence_lower  == Lower(sentence)
      has_claim_keyword ==
        \E kw \in claim_words(cfg, claim) : Contains(sentence_lower, kw)
      has_negation    ==
        \E neg \in negation_words : Contains(sentence_lower, neg)
      pos             == Find(claim_lower, S_in_)
      location        ==
        Strip(RemoveChar(From(claim_lower, pos + Len(S_in_)), "?"))
  IN  IF has_claim_keyword /\ ~has_negation THEN "supporting"
      ELSE IF has_claim_keyword /\ has_negation THEN "contradicting"
      ELSE IF Contains(claim_lower, S_is_in) \/ Contains(claim_lower, S_located_in)
           THEN IF /\ pos > 0
                   /\ location # <<>>
                   /\ Contains(sentence_lower, S_china)
                   /\ location # S_china
                THEN "contradicting"
                ELSE "discarded"
      ELSE "discarded"

\* analyze_evidence deciding FALSE as soon as there is contradicting evidence
analyze_evidence_contradiction_first(cfg, evidence, claim) ==
  LET supporting_evidence ==
        SelectSeq(evidence, LAMBDA s : SentenceClass(cfg, s, claim) = "supporting")
      contradicting_evidence ==
        SelectSeq(evidence, LAMBDA s : SentenceClass(cfg, s, claim) = "contradicting")
  IN  IF contradicting_evidence # <<>>
      THEN <<V_FALSE, contradicting_evidence>>
      ELSE IF supporting_evidence # <<>>
      THEN <<V_TRUE, supporting_evidence>>
      ELSE <<V_INSUFFICIENT_EVIDENCE, <<>>>>

\* WikipediaFactChecker.analyze_evidence: <<verdict, relevant evidence>>
analyze_evidence(cfg, evidence, claim) ==
  LET supporting_evidence ==
        SelectSeq(evidence, LAMBDA s : SentenceClass(cfg, s, claim) = "supporting")
      contradicting_evidence ==
        SelectSeq(evidence, LAMBDA s : SentenceClass(cfg, s, claim) = "contradicting")
  IN  IF supporting_evidence # <<>> /\ contradicting_evidence # <<>>
      THEN <<V_MIXED, supporting_evidence \o contradicting_evidence>>
      ELSE IF supporting_evidence # <<>> /\ contradicting_evidence = <<>>
      THEN <<V_TRUE, supporting_evidence>>
      ELSE IF contradicting_evidence # <<>>
      THEN <<V_FALSE, contradicting_evidence>>
      ELSE <<V_INSUFFICIENT_EVIDENCE, <<>>>>

(***************************************************************************)
(* Python values and exceptions.                                           *)
(***************************************************************************)
\* a call that returned v
Ret(v) == [exc |-> None, ret |-> v]

\* a call that raised exception e
Raise(e) == [exc |-> Some(e), ret |-> <<>>]

Exception(type, msg) == [type |-> type, msg |-> msg]

\* JSON values as json.loads delivers them; JAbsent is a key the object lacks
JAbsent == [t |-> "absent"]

JNull == [t |-> "null"]

JInt(n) == [t |-> "int", n |-> n]

JStr(s) == [t |-> "str", s |-> s]

JList(l) == [t |-> "list", l |-> l]

\* dict.get(key, default) on a parsed object
Get(obj, key, default) == IF obj[key] = JAbsent THEN default ELSE obj[key]

DigitChar(d) ==
  CASE d = 0 -> "0" [] d = 1 -> "1" [] d = 2 -> "2" [] d = 3 -> "3"
    [] d = 4 -> "4" [] d = 5 -> "5" [] d = 6 -> "6" [] d = 7 -> "7"
    [] d = 8 -> "8" [] d = 9 -> "9"

IsDigit(c) == c \in {"0", "1", "2", "3", "4", "5", "6", "7", "8", "9"}

DigitVal(c) == CHOOSE d \in 0..9 : DigitChar(d) = c

RECURSIVE NatToStr(_)
NatToStr(n) ==
  IF n < 10 THEN <<DigitChar(n)>> ELSE Append(NatToStr(n \div 10), DigitChar(n % 10))

RECURSIVE DigitsToNat(_)
DigitsToNat(s) ==
  IF s = <<>> THEN 0
  ELSE 10 * DigitsToNat(SubSeq(s, 1, Len(s) - 1)) + DigitVal(s[Len(s)])

\* "None"
S_None == <<"N", "o", "n", "e">>

\* the builtin str() on a JSON value
PyStr(v) ==
  CASE v.t = "str"  -> v.s
    [] v.t = "null" -> S_None
    [] v.t = "int"  -> IF v.n < 0 THEN <<"-">> \o NatToStr(-v.n) ELSE NatToStr(v.n)

\* the truth value of a JSON value (`if c`)
Truthy(v) ==
  CASE v.t = "str"  -> v.s # <<>>
    [] v.t = "null" -> FALSE
    [] v.t = "int"  -> v.n # 0
    [] v.t = "list" -> v.l # <<>>

\* the builtin int() on a JSON value: an integer as it is, a string parsed
\* as an optionally signed decimal with surrounding space ignored
\* (ValueError otherwise), TypeError on None and on a list
PyInt(v) ==
  CASE v.t = "int"  -> Ret(v.n)
    [] v.t = "str"  ->
         LET body   == Strip(v.s)
             signed == body # <<>> /\ Head(body) \in {"+", "-"}
             digits == IF signed THEN Tail(body) ELSE body
         IN  IF digits # <<>> /\ \A i \in 1..Len(digits) : IsDigit(digits[i])
             THEN Ret(IF signed /\ Head(body) = "-"
                      THEN -DigitsToNat(digits) ELSE DigitsToNat(digits))
             ELSE Raise(Exception("ValueError", <<>>))
    [] v.t \in {"null", "list"} -> Raise(Exception("TypeError", <<>>))

(***************************************************************************)
(* SemanticAnalyzer (src/llm_analyzer.py).                                 *)
(***************************************************************************)
\* the number of citations _parse_llm_response keeps
MaxCitations == 5

\* _parse_llm_response without the test `if verdict not in VERDICTS`
parse_llm_response_no_coerce(text) ==
  LET verdict0 == V_INSUFFICIENT_EVIDENCE
  IN  IF ~(text.start >= 0 /\ text.end > text.start)
      THEN Ret(<<verdict0, <<>>, 0, <<>>>>)
      ELSE IF ~text.valid
      THEN Ret(<<verdict0, <<>>, 0, <<>>>>)
      ELSE
        LET obj         == text.obj
            upper       == Upper(PyStr(Get(obj, "verdict", JStr(verdict0))))
            verdict     == upper
            explanation == PyStr(Get(obj, "explanation", JStr(<<>>)))
            conf        == PyInt(Get(obj, "confidence", JInt(0)))
            confidence  == IF conf.ret < 0 THEN 0
                           ELSE IF conf.ret > 100 THEN 100 ELSE conf.ret
            raw_cites   == Get(obj, "citations", JList(<<>>))
            kept        == SelectSeq(raw_cites.l, Truthy)
            citations   == IF raw_cites.t = "list"
                           THEN Take([i \in 1..Len(kept) |-> Strip(PyStr(kept[i]))],
                                     MaxCitations)
                           ELSE <<>>
        IN  IF conf.exc = None
            THEN Ret(<<verdict, explanation, confidence, citations>>)
            ELSE IF conf.exc[1].type = "TypeError"
            THEN Ret(<<verdict, explanation, 0, <<>>>>)
            ELSE Raise(conf.exc[1])

\* _parse_llm_response without the upper clamp `elif confidence > 100`
parse_llm_response_no_upper_clamp(text) ==
  LET verdict0 == V_INSUFFICIENT_EVIDENCE
  IN  IF ~(text.start >= 0 /\ text.end > text.start)
      THEN Ret(<<verdict0, <<>>, 0, <<>>>>)
      ELSE IF ~text.valid
      THEN Ret(<<verdict0, <<>>, 0, <<>>>>)
      ELSE
        LET obj         == text.obj
            upper       == Upper(PyStr(Get(obj, "verdict", JStr(verdict0))))
            verdict     == IF upper \notin VERDICTS
                           THEN V_INSUFFICIENT_EVIDENCE ELSE upper
            explanation == PyStr(Get(obj, "explanation", JStr(<<>>)))
            conf        == PyInt(Get(obj, "confidence", JInt(0)))
            confidence  == IF conf.ret < 0 THEN 0 ELSE conf.ret
            raw_cites   == Get(obj, "citations", JList(<<>>))
            kept        == SelectSeq(raw_cites.l, Truthy)
            citations   == IF raw_cites.t = "list"
                           THEN Take([i \in 1..Len(kept) |-> Strip(PyStr(kept[i]))],
                                     MaxCitations)
                           ELSE <<>>
        IN  IF conf.exc = None
            THEN Ret(<<verdict, explanation, confidence, citations>>)
            ELSE IF conf.exc[1].type = "TypeError"
            THEN Ret(<<verdict, explanation, 0, <<>>>>)
            ELSE Raise(conf.exc[1])

\* _parse_llm_response.  The response text is [start, end, valid, obj]:
\* start is text.find("{") (-1 when absent), end is text.rfind("}") + 1,
\* valid tells whether json.loads(text[start:end]) succeeds (it raises
\* JSONDecodeError otherwise) and obj is the object it then returns.
\* Returns <<verdict, explanation, confidence, citations>>.
parse_llm_response(text) ==
  LET verdict0 == V_INSUFFICIENT_EVIDENCE
  IN  IF ~(text.start >= 0 /\ text.end > text.start)
      THEN Ret(<<verdict0, <<>>, 0, <<>>>>)
      ELSE IF ~text.valid
      THEN Ret(<<verdict0, <<>>, 0, <<>>>>)
      ELSE
        LET obj         == text.obj
            upper       == Upper(PyStr(Get(obj, "verdict", JStr(verdict0))))
            verdict     == IF upper \notin VERDICTS
                           THEN V_INSUFFICIENT_EVIDENCE ELSE upper
            explanation == PyStr(Get(obj, "explanation", JStr(<<>>)))
            conf        == PyInt(Get(obj, "confidence", JInt(0)))
            confidence  == IF conf.ret < 0 THEN 0
                           ELSE IF conf.ret > 100 THEN 100 ELSE conf.ret
            raw_cites   == Get(obj, "citations", JList(<<>>))
            kept        == SelectSeq(raw_cites.l, Truthy)
            citations   == IF raw_cites.t = "list"
                           THEN Take([i \in 1..Len(kept) |-> Strip(PyStr(kept[i]))],
                                     MaxCitations)
                           ELSE <<>>
        IN  IF conf.exc = None
            THEN Ret(<<verdict, explanation, confidence, citations>>)
            ELSE IF conf.exc[1].type = "TypeError"
            THEN Ret(<<verdict, explanation, 0, <<>>>>)
            ELSE Raise(conf.exc[1])

\* "No evidence was provided to evaluate the claim."
M_no_evidence == <<"N", "o", " ", "e", "v", "i", "d", "e", "n", "c", "e", " ", "w", "a", "s", " ", "p", "r", "o", "v", "i", "d", "e", "d", " ", "t", "o", " ", "e", "v", "a", "l", "u", "a", "t", "e", " ", "t", "h", "e", " ", "c", "l", "a", "i", "m", ".">>

\* "Analysis unavailable: "
M_unavailable == <<"A", "n", "a", "l", "y", "s", "i", "s", " ", "u", "n", "a", "v", "a", "i", "l", "a", "b", "l", "e", ":", " ">>

\* "openai package not installed. pip install openai"
E_openai_pkg == <<"o", "p", "e", "n", "a", "i", " ", "p", "a", "c", "k", "a", "g", "e", " ", "n", "o", "t", " ", "i", "n", "s", "t", "a", "l", "l", "e", "d", ".", " ", "p", "i", "p", " ", "i", "n", "s", "t", "a", "l", "l", " ", "o", "p", "e", "n", "a", "i">>

\* "OPENAI_API_KEY not set and no api_key passed"
E_openai_key == <<"O", "P", "E", "N", "A", "I", "_", "A", "P", "I", "_", "K", "E", "Y", " ", "n", "o", "t", " ", "s", "e", "t", " ", "a", "n", "d", " ", "n", "o", " ", "a", "p", "i", "_", "k", "e", "y", " ", "p", "a", "s", "s", "e", "d">>

\* "ollama package not installed. pip install ollama"
E_ollama_pkg == <<"o", "l", "l", "a", "m", "a", " ", "p", "a", "c", "k", "a", "g", "e", " ", "n", "o", "t", " ", "i", "n", "s", "t", "a", "l", "l", "e", "d", ".", " ", "p", "i", "p", " ", "i", "n", "s", "t", "a", "l", "l", " ", "o", "l", "l", "a", "m", "a">>

\* "Connection error."
E_network == <<"C", "o", "n", "n", "e", "c", "t", "i", "o", "n", " ", "e", "r", "r", "o", "r", ".">>

\* _call_openai.  The backend is [package, key, network, reply]: whether
\* the client package imports, whether an API key is set, whether the
\* request goes through, and the text of the reply.
call_openai(backend) ==
  IF ~backend.package THEN Raise(Exception("RuntimeError", E_openai_pkg))
  ELSE IF ~backend.key THEN Raise(Exception("RuntimeError", E_openai_key))
  ELSE IF ~backend.network THEN Raise(Exception("APIConnectionError", E_network))
  ELSE Ret(backend.reply)

\* _call_ollama
call_ollama(backend) ==
  IF ~backend.package THEN Raise(Exception("RuntimeError", E_ollama_pkg))
  ELSE IF ~backend.network THEN Raise(Exception("ConnectionError", E_network))
  ELSE Ret(backend.reply)

\* LLMAnalyzer.__init__: the fields analyze reads
LLMAnalyzer(cfg) ==
  [provider |-> Lower(cfg.provider), confidence_enabled |-> cfg.confidence_enabled]

\* the backend call analyze makes for its provider
call_backend(self, backend) ==
  IF self.provider = S_openai THEN call_openai(backend) ELSE call_ollama(backend)

\* analyze without the test for empty evidence: the backend is asked about
\* no evidence at all
analyze_no_empty_test(self, evidence, claim, backend) ==
  LET raw == call_backend(self, backend)
  IN  IF raw.exc # None
      THEN Ret(<<V_INSUFFICIENT_EVIDENCE, M_unavailable \o raw.exc[1].msg,
                 0, <<>>, evidence>>)
      ELSE
        LET parsed == parse_llm_response(raw.ret)
        IN  IF parsed.exc # None THEN Raise(parsed.exc[1])
            ELSE Ret(<<parsed.ret[1], parsed.ret[2],
                       IF ~self.confidence_enabled THEN 0 ELSE parsed.ret[3],
                       parsed.ret[4], evidence>>)

\* analyze without the try around the backend call: its exception leaves
\* analyze
analyze_no_catch(self, evidence, claim, backend) ==
  IF evidence = <<>>
  THEN Ret(<<V_INSUFFICIENT_EVIDENCE, M_no_evidence, 0, <<>>, <<>>>>)
  ELSE
    LET raw == call_backend(self, backend)
    IN  IF raw.exc # None
        THEN Raise(raw.exc[1])
        ELSE
          LET parsed == parse_llm_response(raw.ret)
          IN  IF parsed.exc # None THEN Raise(parsed.exc[1])
              ELSE Ret(<<parsed.ret[1], parsed.ret[2],
                         IF ~self.confidence_enabled THEN 0 ELSE parsed.ret[3],
                         parsed.ret[4], evidence>>)

\* LLMAnalyzer.analyze.
\* Returns <<verdict, explanation, confidence, citations, relevant_evidence>>.
analyze(self, evidence, claim, backend) ==
  IF evidence = <<>>
  THEN Ret(<<V_INSUFFICIENT_EVIDENCE, M_no_evidence, 0, <<>>, <<>>>>)
  ELSE
    LET raw == call_backend(self, backend)
    IN  IF raw.exc # None
        THEN Ret(<<V_INSUFFICIENT_EVIDENCE, M_unavailable \o raw.exc[1].msg,
                   0, <<>>, evidence>>)
        ELSE
          LET parsed == parse_llm_response(raw.ret)
          IN  IF parsed.exc # None THEN Raise(parsed.exc[1])
              ELSE Ret(<<parsed.ret[1], parsed.ret[2],
                         IF ~self.confidence_enabled THEN 0 ELSE parsed.ret[3],
                         parsed.ret[4], evidence>>)

\* whether analyze reaches the backend call
analyze_calls_backend(evidence) == evidence # <<>>

(***************************************************************************)
(* Retriever (src/fact_checker.py:64-145).                                 *)
(***************************************************************************)
\* "Rate limit exceeded"
E_rate_limit == <<"R", "a", "t", "e", " ", "l", "i", "m", "i", "t", " ", "e", "x", "c", "e", "e", "d", "e", "d">>

\* "Request timed out"
E_timed_out == <<"R", "e", "q", "u", "e", "s", "t", " ", "t", "i", "m", "e", "d", " ", "o", "u", "t">>

\* "https://en.wikipedia.org/?curid="
URL_PREFIX == <<"h", "t", "t", "p", "s", ":", "/", "/", "e", "n", ".", "w", "i", "k", "i", "p", "e", "d", "i", "a", ".", "o", "r", "g", "/", "?", "c", "u", "r", "i", "d", "=">>

WikipediaAPIError(msg, status_code) ==
  [type |-> "WikipediaAPIError", msg |-> msg, status_code |-> status_code]

\* What session.get does for one request: it raises requests.Timeout
\* ("timeout") or another RequestException ("conn_error"), or it returns a
\* response ("response") with a status code and a JSON payload.
\* A search payload is [is_dict, search]; a page payload is
\* [is_dict, query_is_dict, extract], extract being the JSON value found at
\* query.pages[str(page_id)].extract (JAbsent when any key is missing).
HttpRaises(kind) == [kind |-> kind, status |-> 0, json |-> <<>>]

HttpResponse(status, json) == [kind |-> "response", status |-> status, json |-> json]

\* search_wikipedia with the 429 test lost: the status is left to
\* raise_for_status, whose HTTPError the RequestException handler absorbs
search_wikipedia_no_429_test(response) ==
  IF response.kind = "timeout" THEN Raise(WikipediaAPIError(E_timed_out, None))
  ELSE IF response.kind = "conn_error" THEN Ret(<<>>)
  ELSE IF response.status >= 400 THEN Ret(<<>>)
  ELSE IF ~response.json.is_dict THEN Ret(<<>>)
  ELSE Ret(response.json.search)

\* search_wikipedia with every RequestException turned into WikipediaAPIError
search_wikipedia_raises_on_any_error(response) ==
  IF response.kind = "timeout" THEN Raise(WikipediaAPIError(E_timed_out, None))
  ELSE IF response.kind = "conn_error"
       THEN Raise(WikipediaAPIError(E_timed_out, None))
  ELSE IF response.status = 429 THEN Raise(WikipediaAPIError(E_rate_limit, Some(429)))
  ELSE IF response.status >= 400
       THEN Raise(WikipediaAPIError(E_rate_limit, Some(response.status)))
  ELSE IF ~response.json.is_dict THEN Ret(<<>>)
  ELSE Ret(response.json.search)

\* WikipediaFactChecker.search_wikipedia
search_wikipedia(response) ==
  IF response.kind = "timeout" THEN Raise(WikipediaAPIError(E_timed_out, None))
  ELSE IF response.kind = "conn_error" THEN Ret(<<>>)
  ELSE IF response.status = 429 THEN Raise(WikipediaAPIError(E_rate_limit, Some(429)))
  ELSE IF response.status >= 400 THEN Ret(<<>>)
  ELSE IF ~response.json.is_dict THEN Ret(<<>>)
  ELSE Ret(response.json.search)

\* WikipediaFactChecker.get_page_content
get_page_content(response) ==
  IF response.kind = "timeout" THEN Ret(<<>>)
  ELSE IF response.kind = "conn_error" THEN Ret(<<>>)
  ELSE IF response.status = 429 THEN Raise(WikipediaAPIError(E_rate_limit, Some(429)))
  ELSE IF response.status >= 400 THEN Ret(<<>>)
  ELSE IF ~response.json.is_dict THEN Ret(<<>>)
  ELSE IF ~response.json.query_is_dict
       THEN Raise(Exception("AttributeError", <<>>))
  ELSE IF response.json.extract.t = "str" THEN Ret(response.json.extract.s)
  ELSE Ret(<<>>)

\* the source entry the orchestrators append for a search result
Source(result) ==
  [ title  |-> result.title,
    pageid |-> result.pageid[1],
    url    |-> URL_PREFIX \o NatToStr(result.pageid[1]) ]

(***************************************************************************)
(* Inputs: claims, page bodies, search results, HTTP and backend replies.  *)
(***************************************************************************)
\* "Cat died"
claim_died == <<"C", "a", "t", " ", "d", "i", "e", "d">>

\* "it is in usa"
claim_usa == <<"i", "t", " ", "i", "s", " ", "i", "n", " ", "u", "s", "a">>

\* "Cat died. Cat ran."
body_cat == <<"C", "a", "t", " ", "d", "i", "e", "d", ".", " ", "C", "a", "t", " ", "r", "a", "n", ".">>

\* "Usa is not China.  Cat never died"
body_usa == <<"U", "s", "a", " ", "i", "s", " ", "n", "o", "t", " ", "C", "h", "i", "n", "a", ".", " ", " ", "C", "a", "t", " ", "n", "e", "v", "e", "r", " ", "d", "i", "e", "d">>

\* "true"
S_true == <<"t", "r", "u", "e">>

\* "Mixed"
S_Mixed == <<"M", "i", "x", "e", "d">>

\* "MAYBE"
S_MAYBE == <<"M", "A", "Y", "B", "E">>

\* "ok"
S_ok == <<"o", "k">>

\* "high"
S_high == <<"h", "i", "g", "h">>

\* " 42 "
S_42 == <<" ", "4", "2", " ">>

\* " a "
S_cite == <<" ", "a", " ">>

\* "This is it. USA wins. No"
body_short == <<"T", "h", "i", "s", " ", "i", "s", " ", "i", "t", ".", " ", "U", "S", "A", " ", "w", "i", "n", "s", ".", " ", "N", "o">>

Claims == {claim_died, claim_usa}

\* "Cat ran"
claim_cat_ran == <<"C", "a", "t", " ", "r", "a", "n">>

Bodies == {body_cat, body_usa}

\* search result entries: two pages and an entry without a pageid
Docs ==
  { [pageid |-> Some(1), title |-> <<"A">>],
    [pageid |-> Some(2), title |-> <<"B">>],
    [pageid |-> None,    title |-> <<"C">>] }

SearchLists == UNION {[1..k -> Docs] : k \in 0..MaxResults}

SearchHttp ==
  { HttpRaises("timeout"), HttpRaises("conn_error"),
    HttpResponse(429, <<>>), HttpResponse(500, <<>>),
    HttpResponse(200, [is_dict |-> FALSE, search |-> <<>>]) }
  \cup { HttpResponse(200, [is_dict |-> TRUE, search |-> l]) : l \in SearchLists }

PagePayload(query_is_dict, extract) ==
  [is_dict |-> TRUE, query_is_dict |-> query_is_dict, extract |-> extract]

FetchHttp ==
  { HttpRaises("timeout"), HttpRaises("conn_error"),
    HttpResponse(429, <<>>), HttpResponse(500, <<>>),
    HttpResponse(200, [is_dict |-> FALSE, query_is_dict |-> FALSE,
                       extract |-> JAbsent]),
    HttpResponse(200, PagePayload(FALSE, JAbsent)),
    HttpResponse(200, PagePayload(TRUE, JAbsent)),
    HttpResponse(200, PagePayload(TRUE, JInt(7))),
    HttpResponse(200, PagePayload(TRUE, JStr(<<>>))) }
  \cup { HttpResponse(200, PagePayload(TRUE, JStr(b))) : b \in Bodies }

\* the fetch failures that are meant to be skipped silently
FetchFailed(r) ==
  \/ r.kind \in {"timeout", "conn_error"}
  \/ r.kind = "response" /\ r.status >= 400
  \/ r.kind = "response" /\ r.status = 200
       /\ (~r.json.is_dict \/ ~r.json.query_is_dict
           \/ r.json.extract.t # "str")

\* the confidence values a backend may send
ConfInts == (-ConfOver .. 0) \cup {55} \cup (100 .. (100 + ConfOver))

\* nine citation entries: two falsy ones and seven that are kept
ManyCitations ==
  JList(<<JStr(S_cite), JStr(<<>>), JStr(S_cite), JStr(S_cite), JNull,
          JStr(S_cite), JInt(7), JStr(S_ok), JStr(S_high)>>)

ReplyObjects ==
  [ verdict     : {JAbsent, JNull, JStr(V_TRUE), JStr(S_true), JStr(S_Mixed),
                   JStr(S_MAYBE)},
    explanation : {JAbsent, JNull, JStr(S_ok)},
    confidence  : {JAbsent, JNull, JStr(S_high), JStr(S_42)}
                    \cup {JInt(n) : n \in ConfInts},
    citations   : {JAbsent, JStr(S_ok), ManyCitations} ]

NoObject ==
  [verdict |-> JAbsent, explanation |-> JAbsent, confidence |-> JAbsent,
   citations |-> JAbsent]

Text(start, end, valid, obj) ==
  [start |-> start, end |-> end, valid |-> valid, obj |-> obj]

\* replies without a JSON object: no brace, "}" before "{", invalid JSON
UnparsableReplies ==
  { Text(-1, 0, FALSE, NoObject), Text(2, 1, FALSE, NoObject),
    Text(0, 9, FALSE, NoObject) }

Replies == UnparsableReplies \cup {Text(0, 9, TRUE, o) : o \in ReplyObjects}

\* the replies the orchestrated runs are explored with
PipelineReplies ==
  UnparsableReplies \cup
  { Text(0, 9, TRUE, o) : o \in
      { [verdict |-> JStr(S_true), explanation |-> JStr(S_ok),
         confidence |-> JInt(55), citations |-> ManyCitations],
        [verdict |-> JStr(S_MAYBE), explanation |-> JStr(S_ok),
         confidence |-> JInt(100 + ConfOver), citations |-> JAbsent],
        [verdict |-> JStr(V_TRUE), explanation |-> JAbsent,
         confidence |-> JNull, citations |-> JAbsent],
        [verdict |-> JStr(S_Mixed), explanation |-> JStr(S_ok),
         confidence |-> JStr(S_high), citations |-> JAbsent] } }

Backend(package, key, network, reply) ==
  [package |-> package, key |-> key, network |-> network, reply |-> reply]

FailingBackends ==
  { Backend(FALSE, TRUE, TRUE, Text(-1, 0, FALSE, NoObject)),
    Backend(TRUE, TRUE, FALSE, Text(-1, 0, FALSE, NoObject)),
    Backend(TRUE, FALSE, TRUE, Text(-1, 0, FALSE, NoObject)) }

Backends == FailingBackends \cup {Backend(TRUE, TRUE, TRUE, r) : r \in Replies}

PipelineBackends ==
  FailingBackends \cup {Backend(TRUE, TRUE, TRUE, r) : r \in PipelineReplies}

\* the evidence lists LLMAnalyzer.analyze and analyze_evidence are called
\* with directly: what the extractor yields for one body, and no evidence
DirectEvidence ==
  {<<>>} \cup {extract_relevant_sentences(DEFAULTS, b, c) : b \in Bodies, c \in Claims}

\* "Cat died"
e_died == <<"C", "a", "t", " ", "d", "i", "e", "d">>

\* "Cat ran."
e_ran == <<"C", "a", "t", " ", "r", "a", "n", ".">>

\* "Cat never died"
e_never == <<"C", "a", "t", " ", "n", "e", "v", "e", "r", " ", "d", "i", "e", "d">>

\* "Cat died at noon"
e_noon == <<"C", "a", "t", " ", "d", "i", "e", "d", " ", "a", "t", " ", "n", "o", "o", "n">>

\* "Usa is not China"
e_not_china == <<"U", "s", "a", " ", "i", "s", " ", "n", "o", "t", " ", "C", "h", "i", "n", "a">>

\* "China is big"
e_china == <<"C", "h", "i", "n", "a", " ", "i", "s", " ", "b", "i", "g">>

\* "It is in China?"
claim_china == <<"I", "t", " ", "i", "s", " ", "i", "n", " ", "C", "h", "i", "n", "a", "?">>

\* "it is in"
claim_is_in == <<"i", "t", " ", "i", "s", " ", "i", "n">>

\* "Cat died in Usa"
claim_died_in == <<"C", "a", "t", " ", "d", "i", "e", "d", " ", "i", "n", " ", "U", "s", "a">>

\* "Cat located in Nepal"
claim_located == <<"C", "a", "t", " ", "l", "o", "c", "a", "t", "e", "d", " ", "i", "n", " ", "N", "e", "p", "a", "l">>

\* the sentences analyze_evidence is called with directly
EvidenceSentences == {e_died, e_ran, e_never, e_noon, e_not_china, e_china}

\* the evidence lists analyze_evidence is called with directly
HeuristicEvidence ==
  UNION {[1..k -> EvidenceSentences] : k \in 0..MaxEvidence}

\* the claims analyze_evidence is called with directly
HeuristicClaims ==
  Claims \cup {claim_china, claim_is_in, claim_died_in, claim_located}

\* the claim lists run_multi_claim_fact_check is called with
Batches == UNION {[1..k -> Claims] : k \in 0..MaxBatch}

\* the analyzer modes asked for in batches and repeated calls
RunsModeArgs == {Some(S_keyword), Some(S_LLM)}

\* the answers to the search request in batches and repeated calls
RunsSearchHttp ==
  { HttpRaises("timeout"), HttpResponse(429, <<>>), HttpResponse(500, <<>>),
    HttpResponse(200, [is_dict |-> TRUE, search |->
      << [pageid |-> Some(1), title |-> <<"A">>],
         [pageid |-> Some(2), title |-> <<"B">>] >>]),
    HttpResponse(200, [is_dict |-> TRUE, search |->
      << [pageid |-> None, title |-> <<"C">>],
         [pageid |-> Some(2), title |-> <<"B">>] >>]) }

\* the answers to a page request in batches and repeated calls
RunsFetchHttp ==
  { HttpResponse(429, <<>>),
    HttpResponse(200, PagePayload(TRUE, JStr(<<>>))),
    HttpResponse(200, PagePayload(TRUE, JStr(body_cat))) }

\* the backend of batches and repeated calls: it answers
RunsBackends ==
  { Backend(TRUE, TRUE, TRUE,
            Text(0, 9, TRUE,
                 [verdict |-> JStr(S_true), explanation |-> JStr(S_ok),
                  confidence |-> JInt(55), citations |-> JAbsent])) }

\* the texts and claims extract_relevant_sentences is called with directly
ExtractTexts == Bodies \cup {<<>>, body_short}

ExtractClaims == Claims \cup {<<>>}

(***************************************************************************)
(* State.                                                                  *)
(***************************************************************************)
VARIABLES
  config,         \* config._CONFIG, the merged configuration in use
  pc,             \* "idle", "search", "loop", "returned" or "raised"
  call,           \* the running call: operation, arguments, mode and n
  results,        \* run_fact_check*: the search results
  i,              \* run_fact_check*: 1-based position in results[:n]
  evidence_list,  \* run_fact_check*: evidence accumulated so far
  sources_list,   \* run_fact_check*: sources accumulated so far
  result,         \* the value the call returned (None until it returns)
  error,          \* the exception the call raised (None unless it raised)
  http,           \* what session.get did for the latest request of the call
  trace,          \* the collaborators' calls made by this call, in order
  batch,          \* run_multi_claim_fact_check: arguments and results so far
  before,         \* the error of the failed call that the running call repeats
  defaults,       \* config.DEFAULTS, the dict object of the module
  loaded_from     \* the path of the load that filled config._CONFIG

vars ==
  <<config, pc, call, results, i, evidence_list, sources_list, result,
    error, http, trace, batch, before, defaults, loaded_from>>

Event(ev, arg) == [ev |-> ev, arg |-> arg]

\* the events of the running call with the given name
Events(ev) == SelectSeq(trace, LAMBDA e : e.ev = ev)

NoCall ==
  [op |-> "none", claim |-> <<>>, mode |-> <<>>, n |-> 0, evidence |-> <<>>,
   text |-> <<>>,
    path |-> <<>>]

\* no batch is running
NoBatch ==
  [active |-> FALSE, claims |-> <<>>, max_articles_per_claim |-> <<>>,
   analyzer_mode |-> <<>>, out |-> <<>>, logs |-> <<>>]

Init ==
  /\ config \in Configs
  /\ pc = "idle"
  /\ call = NoCall
  /\ results = <<>>
  /\ i = 0
  /\ evidence_list = <<>>
  /\ sources_list = <<>>
  /\ result = None
  /\ error = None
  /\ http = None
  /\ trace = <<>>
  /\ batch = NoBatch
  /\ before = None
  /\ defaults = DEFAULTS
  /\ loaded_from = Some(CONFIG_PATH)

(***************************************************************************)
(* Orchestrator: run_fact_check and run_fact_check_with_analyzer.          *)
(***************************************************************************)
\* the tuple run_fact_check returns
Tuple3(verdict, evidence, sources) ==
  [verdict |-> verdict, evidence |-> evidence, sources |-> sources]

\* the dict run_fact_check_with_analyzer returns
Dict5(verdict, evidence, sources, explanation, confidence) ==
  [verdict |-> verdict, evidence |-> evidence, sources |-> sources,
   explanation |-> explanation, confidence |-> confidence]

\* HeuristicResult with the dict carrying all the evidence gathered, not the
\* relevant evidence analyze_evidence returns
HeuristicResult_all_evidence(op, cfg, evidence, sources, claim) ==
  LET r == analyze_evidence(cfg, evidence, claim)
  IN  IF op = "run_fact_check"
      THEN Tuple3(r[1], r[2], sources)
      ELSE Dict5(r[1], evidence, sources, None, None)

\* the result of the heuristic path, in the shape of the running operation
HeuristicResult(op, cfg, evidence, sources, claim) ==
  LET r == analyze_evidence(cfg, evidence, claim)
  IN  IF op = "run_fact_check"
      THEN Tuple3(r[1], r[2], sources)
      ELSE Dict5(r[1], r[2], sources, None, None)

\* the result returned when the search has no results
NoResults(op) ==
  IF op = "run_fact_check"
  THEN Tuple3(V_INSUFFICIENT_EVIDENCE, <<>>, <<>>)
  ELSE Dict5(V_INSUFFICIENT_EVIDENCE, <<>>, <<>>, None, None)

\* the maximal numbers of articles a caller asks for
ArticleArgs == {None, Some(1)}

\* the analyzer modes a caller asks for
ModeArgs == {None, Some(S_keyword), Some(S_LLM),
             Some(<<"S", "e", "m", "a", "n", "t", "i", "c">>)}

\* entry of run_fact_check(claim, max_articles_to_fetch): n is computed
run_fact_check(claim, max_articles_to_fetch) ==
  /\ pc = "idle"
  /\ pc' = "search"
  /\ call' = [ op |-> "run_fact_check", claim |-> claim, mode |-> <<>>,
               n |-> IF max_articles_to_fetch # None
                     THEN max_articles_to_fetch[1] ELSE config.max_articles,
               evidence |-> <<>>, text |-> <<>>,
    path |-> <<>> ]
  /\ UNCHANGED <<defaults, loaded_from, batch, before, config, results, i, evidence_list, sources_list, result,
                 error, http, trace>>

\* entry of run_fact_check_with_analyzer(claim, max_articles_to_fetch,
\* analyzer_mode): mode and n are computed
run_fact_check_with_analyzer(claim, max_articles_to_fetch, analyzer_mode) ==
  /\ pc = "idle"
  /\ pc' = "search"
  /\ call' = [ op |-> "run_fact_check_with_analyzer", claim |-> claim,
               mode |-> Lower(IF analyzer_mode # None /\ analyzer_mode[1] # <<>>
                              THEN analyzer_mode[1] ELSE config.analyzer_mode),
               n |-> IF max_articles_to_fetch # None
                     THEN max_articles_to_fetch[1] ELSE config.max_articles,
               evidence |-> <<>>, text |-> <<>>,
    path |-> <<>> ]
  /\ UNCHANGED <<defaults, loaded_from, batch, before, config, results, i, evidence_list, sources_list, result,
                 error, http, trace>>

\* both orchestrators: results = self.search_wikipedia(claim), the
\* propagation of WikipediaAPIError and the return on no results
Search(response) ==
  /\ pc = "search"
  /\ http' = Some(response)
  /\ trace' = Append(trace, Event("search", <<>>))
  /\ LET r == search_wikipedia(response)
     IN  IF r.exc # None
         THEN /\ pc' = "raised"
              /\ error' = r.exc
              /\ UNCHANGED <<results, i, result>>
         ELSE IF r.ret = <<>>
         THEN /\ pc' = "returned"
              /\ result' = Some(NoResults(call.op))
              /\ UNCHANGED <<results, i, error>>
         ELSE /\ pc' = "loop"
              /\ results' = r.ret
              /\ i' = 1
              /\ UNCHANGED <<result, error>>
  /\ UNCHANGED <<defaults, loaded_from, batch, before, config, call, evidence_list, sources_list>>

\* the loop running over all the results, not over results[:n]
Visited_all == results

\* results[:n], the entries the loop visits
Visited == Take(results, call.n)

\* one iteration of the loop for an entry without pageid: continue
LoopSkip ==
  /\ pc = "loop"
  /\ i <= Len(Visited)
  /\ Visited[i].pageid = None
  /\ i' = i + 1
  /\ UNCHANGED <<defaults, loaded_from, batch, before, config, pc, call, results, evidence_list, sources_list,
                 result, error, http, trace>>

\* LoopFetch appending the source only when the page gave a relevant sentence
LoopFetch_source_if_relevant(response) ==
  /\ pc = "loop"
  /\ i <= Len(Visited)
  /\ Visited[i].pageid # None
  /\ http' = Some(response)
  /\ LET content == get_page_content(response)
     IN  /\ trace' = Append(trace, Event("fetch", <<Visited[i].pageid[1], content.ret>>))
         /\ IF content.exc # None
            THEN /\ pc' = "raised"
                 /\ error' = content.exc
                 /\ UNCHANGED <<i, evidence_list, sources_list>>
            ELSE /\ i' = i + 1
                 /\ IF content.ret # <<>>
                    THEN /\ evidence_list' = evidence_list \o
                              extract_relevant_sentences(config, content.ret, call.claim)
                         /\ sources_list' =
                              IF extract_relevant_sentences(config, content.ret,
                                                            call.claim) # <<>>
                              THEN Append(sources_list, Source(Visited[i]))
                              ELSE sources_list
                    ELSE UNCHANGED <<evidence_list, sources_list>>
                 /\ UNCHANGED <<pc, error>>
  /\ UNCHANGED <<defaults, loaded_from, batch, before, config, call, results, result>>

\* one iteration of the loop for an entry with a pageid: fetch, extract,
\* accumulate
LoopFetch(response) ==
  /\ pc = "loop"
  /\ i <= Len(Visited)
  /\ Visited[i].pageid # None
  /\ http' = Some(response)
  /\ LET content == get_page_content(response)
     IN  /\ trace' = Append(trace, Event("fetch", <<Visited[i].pageid[1], content.ret>>))
         /\ IF content.exc # None
            THEN /\ pc' = "raised"
                 /\ error' = content.exc
                 /\ UNCHANGED <<i, evidence_list, sources_list>>
            ELSE /\ i' = i + 1
                 /\ IF content.ret # <<>>
                    THEN /\ evidence_list' = evidence_list \o
                              extract_relevant_sentences(config, content.ret, call.claim)
                         /\ sources_list' = Append(sources_list, Source(Visited[i]))
                    ELSE UNCHANGED <<evidence_list, sources_list>>
                 /\ UNCHANGED <<pc, error>>
  /\ UNCHANGED <<defaults, loaded_from, batch, before, config, call, results, result>>

\* after the loop, heuristic path: run_fact_check, or any mode but "llm"
AnalyzeHeuristic ==
  /\ pc = "loop"
  /\ i > Len(Visited)
  /\ call.op = "run_fact_check" \/ call.mode # S_llm
  /\ pc' = "returned"
  /\ result' = Some(HeuristicResult(call.op, config, evidence_list,
                                    sources_list, call.claim))
  /\ trace' = Append(trace, Event("analyze_evidence", <<>>))
  /\ UNCHANGED <<defaults, loaded_from, batch, before, config, call, results, i, evidence_list, sources_list, error,
                 http>>

\* the events of one LLMAnalyzer.analyze call
AnalyzeEvents(evidence, backend) ==
  <<Event("analyze", backend)>> \o
  (IF analyze_calls_backend(evidence) THEN <<Event("backend", backend)>> ELSE <<>>)

\* AnalyzeSemantic with `except ImportError` in place of `except Exception`:
\* an exception of analyze reaches the caller
AnalyzeSemantic_except_ImportError(import_ok, backend) ==
  /\ pc = "loop"
  /\ i > Len(Visited)
  /\ call.op = "run_fact_check_with_analyzer" /\ call.mode = S_llm
  /\ LET r == IF ~import_ok THEN Raise(Exception("ImportError", <<>>))
              ELSE analyze(LLMAnalyzer(config), evidence_list, call.claim, backend)
     IN  IF r.exc = None
         THEN /\ pc' = "returned"
              /\ error' = error
              /\ result' = Some(Dict5(r.ret[1], r.ret[5], sources_list,
                                      IF r.ret[2] # <<>> THEN Some(r.ret[2]) ELSE None,
                                      Some(r.ret[3])))
              /\ trace' = trace \o <<Event("import", import_ok)>>
                                 \o AnalyzeEvents(evidence_list, backend)
         ELSE IF ~import_ok
         THEN /\ pc' = "returned"
              /\ error' = error
              /\ result' = Some(HeuristicResult(call.op, config, evidence_list,
                                                sources_list, call.claim))
              /\ trace' = trace
                   \o <<Event("import", import_ok), Event("analyze_evidence", <<>>)>>
         ELSE /\ pc' = "raised"
              /\ error' = r.exc
              /\ result' = result
              /\ trace' = trace \o <<Event("import", import_ok)>>
                                 \o AnalyzeEvents(evidence_list, backend)
  /\ UNCHANGED <<defaults, loaded_from, batch, before, config, call, results, i, evidence_list, sources_list, http>>

\* after the loop, mode "llm": import and construct the analyzer, call
\* analyze; on any exception fall back to analyze_evidence
AnalyzeSemantic(import_ok, backend) ==
  /\ pc = "loop"
  /\ i > Len(Visited)
  /\ call.op = "run_fact_check_with_analyzer" /\ call.mode = S_llm
  /\ pc' = "returned"
  /\ LET r == IF ~import_ok THEN Raise(Exception("ImportError", <<>>))
              ELSE analyze(LLMAnalyzer(config), evidence_list, call.claim, backend)
     IN  IF r.exc = None
         THEN /\ result' = Some(Dict5(r.ret[1], r.ret[5], sources_list,
                                      IF r.ret[2] # <<>> THEN Some(r.ret[2]) ELSE None,
                                      Some(r.ret[3])))
              /\ trace' = trace \o <<Event("import", import_ok)>>
                                 \o AnalyzeEvents(evidence_list, backend)
         ELSE /\ result' = Some(HeuristicResult(call.op, config, evidence_list,
                                                sources_list, call.claim))
              /\ trace' = trace
                   \o <<Event("import", import_ok)>>
                   \o (IF import_ok THEN AnalyzeEvents(evidence_list, backend) ELSE <<>>)
                   \o <<Event("analyze_evidence", <<>>)>>
  /\ UNCHANGED <<defaults, loaded_from, batch, before, config, call, results, i, evidence_list, sources_list, error,
                 http>>

(***************************************************************************)
(* Direct calls of the analyzers.                                          *)
(***************************************************************************)
\* LLMAnalyzer().analyze(evidence, claim) called on its own
CallAnalyze(evidence, claim, backend) ==
  /\ pc = "idle"
  /\ call' = [ op |-> "analyze", claim |-> claim, mode |-> <<>>, n |-> 0,
               evidence |-> evidence, text |-> <<>>,
    path |-> <<>> ]
  /\ trace' = AnalyzeEvents(evidence, backend)
  /\ LET r == analyze(LLMAnalyzer(config), evidence, claim, backend)
     IN  IF r.exc = None
         THEN pc' = "returned" /\ result' = Some(r.ret) /\ error' = None
         ELSE pc' = "raised" /\ error' = r.exc /\ result' = None
  /\ UNCHANGED <<defaults, loaded_from, batch, before, config, results, i, evidence_list, sources_list, http>>

\* checker.analyze_evidence(evidence, claim) called on its own
CallAnalyzeEvidence(evidence, claim) ==
  /\ pc = "idle"
  /\ call' = [ op |-> "analyze_evidence", claim |-> claim, mode |-> <<>>,
               n |-> 0, evidence |-> evidence, text |-> <<>>,
    path |-> <<>> ]
  /\ trace' = <<Event("analyze_evidence", <<>>)>>
  /\ pc' = "returned"
  /\ result' = Some(analyze_evidence(config, evidence, claim))
  /\ UNCHANGED <<defaults, loaded_from, batch, before, config, results, i, evidence_list, sources_list, error, http>>

\* checker.extract_relevant_sentences(text, claim) called on its own
CallExtract(text, claim) ==
  /\ pc = "idle"
  /\ call' = [ op |-> "extract_relevant_sentences", claim |-> claim,
               mode |-> <<>>, n |-> 0, evidence |-> <<>>, text |-> text,
    path |-> <<>> ]
  /\ pc' = "returned"
  /\ result' = Some(extract_relevant_sentences(config, text, claim))
  /\ UNCHANGED <<defaults, loaded_from, batch, before, config, results, i, evidence_list, sources_list, error, http,
                 trace>>

\* the caller takes the result or the exception; the locals are gone
Return ==
  /\ pc \in {"returned", "raised"}
  /\ ~(batch.active /\ pc = "returned")
  /\ pc' = "idle"
  /\ call' = NoCall
  /\ results' = <<>>
  /\ i' = 0
  /\ evidence_list' = <<>>
  /\ sources_list' = <<>>
  /\ result' = None
  /\ error' = None
  /\ http' = None
  /\ trace' = <<>>
  /\ batch' = NoBatch
  /\ before' = None
  /\ UNCHANGED <<config, defaults, loaded_from>>

(***************************************************************************)
(* The config module.                                                      *)
(***************************************************************************)
\* a call into the config module ends: the module state is the outcome's,
\* and the caller gets the returned value or the exception
ConfigCallEnds(op, config_path, outcome, value) ==
  /\ call' = [op |-> op, claim |-> <<>>, mode |-> <<>>, n |-> 0,
              evidence |-> <<>>, text |-> <<>>, path |-> config_path]
  /\ config' = outcome.CONFIG
  /\ defaults' = outcome.DEFAULTS
  /\ loaded_from' = outcome.source
  /\ trace' = outcome.requests
  /\ IF outcome.exc # None
     THEN pc' = "raised" /\ error' = outcome.exc /\ result' = None
     ELSE pc' = "returned" /\ error' = None /\ result' = Some(value)
  /\ UNCHANGED <<batch, before, results, i, evidence_list, sources_list, http>>

\* config.load_config(config_path), the file at the path being as given
load_config(config_path, file) ==
  /\ pc = "idle"
  /\ LET o == LoadConfig(config, defaults, loaded_from, config_path, file)
     IN  ConfigCallEnds("load_config", config_path, o, o.CONFIG)

\* config.get_config(config_path)
get_config(config_path, file) ==
  /\ pc = "idle"
  /\ LET o == GetConfig(config, defaults, loaded_from, config_path, file)
     IN  ConfigCallEnds("get_config", config_path, o, o.CONFIG)

\* WikipediaFactChecker(config_path): get_config(config_path) when a path
\* is given, then get_wikipedia_config() and get_fact_check_config(), which
\* call get_config(); the checker keeps max_articles and the fact_check
\* section
WikipediaFactChecker(config_path, file) ==
  /\ pc = "idle"
  /\ LET first == IF config_path # None
                  THEN GetConfig(config, defaults, loaded_from, config_path,
                                 file)
                  ELSE ConfigOutcome(None, config, defaults, <<>>, loaded_from)
         o     == IF first.exc # None THEN first
                  ELSE LET second == GetConfig(first.CONFIG, first.DEFAULTS,
                                               first.source, None, file)
                       IN  [second EXCEPT
                              !.requests = first.requests \o second.requests]
     IN  ConfigCallEnds("WikipediaFactChecker", config_path, o,
           IF o.exc # None THEN <<>>
           ELSE [ max_articles           |-> o.CONFIG.max_articles,
                  max_evidence_sentences |-> o.CONFIG.max_evidence_sentences,
                  min_keyword_length     |-> o.CONFIG.min_keyword_length ])

(***************************************************************************)
(* Batches and repeated calls.                                             *)
(***************************************************************************)
\* the call record of run_fact_check_with_analyzer(claim,
\* max_articles_to_fetch, analyzer_mode)
AnalyzerCall(claim, max_articles_to_fetch, analyzer_mode) ==
  [ op |-> "run_fact_check_with_analyzer", claim |-> claim,
    mode |-> Lower(IF analyzer_mode # None /\ analyzer_mode[1] # <<>>
                   THEN analyzer_mode[1] ELSE config.analyzer_mode),
    n |-> IF max_articles_to_fetch # None
          THEN max_articles_to_fetch[1] ELSE config.max_articles,
    evidence |-> <<>>, text |-> <<>>,
    path |-> <<>> ]

\* the call record of run_multi_claim_fact_check once its list is built
BatchCall ==
  [op |-> "run_multi_claim_fact_check", claim |-> <<>>, mode |-> <<>>,
   n |-> 0, evidence |-> <<>>, text |-> <<>>,
    path |-> <<>>]

\* what a finished call leaves to look at: its call record and the
\* Retriever's and analyzers' part in it
Log == [call |-> call, results |-> results, http |-> http, trace |-> trace]

\* entry of run_multi_claim_fact_check(claims, max_articles_per_claim,
\* analyzer_mode): the comprehension calls run_fact_check_with_analyzer for
\* the first claim, or returns [] for no claims
run_multi_claim_fact_check(claims, max_articles_per_claim, analyzer_mode) ==
  /\ pc = "idle"
  /\ IF claims = <<>>
     THEN /\ pc' = "returned"
          /\ call' = BatchCall
          /\ result' = Some(<<>>)
          /\ batch' = [NoBatch EXCEPT
                         !.max_articles_per_claim = max_articles_per_claim,
                         !.analyzer_mode = analyzer_mode]
     ELSE /\ pc' = "search"
          /\ call' = AnalyzerCall(claims[1], max_articles_per_claim,
                                  analyzer_mode)
          /\ result' = result
          /\ batch' = [NoBatch EXCEPT
                         !.active = TRUE, !.claims = claims,
                         !.max_articles_per_claim = max_articles_per_claim,
                         !.analyzer_mode = analyzer_mode]
  /\ UNCHANGED <<defaults, loaded_from, before, config, results, i, evidence_list, sources_list,
                 error, http, trace>>

\* NextClaim taking a call that raised for a result without evidence and
\* going on with the next claim
NextClaim_skips_failed ==
  /\ batch.active
  /\ pc \in {"returned", "raised"}
  /\ LET out  == Append(batch.out,
                        IF pc = "returned" THEN result[1]
                        ELSE NoResults("run_fact_check_with_analyzer"))
         logs == Append(batch.logs, Log)
     IN  IF Len(out) < Len(batch.claims)
         THEN /\ pc' = "search"
              /\ call' = AnalyzerCall(batch.claims[Len(out) + 1],
                                      batch.max_articles_per_claim,
                                      batch.analyzer_mode)
              /\ result' = None
              /\ batch' = [batch EXCEPT !.out = out, !.logs = logs]
         ELSE /\ pc' = "returned"
              /\ call' = BatchCall
              /\ result' = Some(out)
              /\ batch' = [batch EXCEPT !.active = FALSE, !.out = out,
                                        !.logs = logs]
  /\ results' = <<>>
  /\ i' = 0
  /\ evidence_list' = <<>>
  /\ sources_list' = <<>>
  /\ error' = None
  /\ http' = None
  /\ trace' = <<>>
  /\ UNCHANGED <<defaults, loaded_from, before, config>>

\* NextClaim with the evidence and the sources of one claim left in place
\* for the next one
NextClaim_shared_lists ==
  /\ batch.active
  /\ pc = "returned"
  /\ LET out  == Append(batch.out, result[1])
         logs == Append(batch.logs, Log)
     IN  IF Len(out) < Len(batch.claims)
         THEN /\ pc' = "search"
              /\ call' = AnalyzerCall(batch.claims[Len(out) + 1],
                                      batch.max_articles_per_claim,
                                      batch.analyzer_mode)
              /\ result' = None
              /\ batch' = [batch EXCEPT !.out = out, !.logs = logs]
         ELSE /\ pc' = "returned"
              /\ call' = BatchCall
              /\ result' = Some(out)
              /\ batch' = [batch EXCEPT !.active = FALSE, !.out = out,
                                        !.logs = logs]
  /\ results' = <<>>
  /\ i' = 0
  /\ error' = None
  /\ http' = None
  /\ trace' = <<>>
  /\ UNCHANGED <<defaults, loaded_from, before, config, evidence_list, sources_list>>

\* run_multi_claim_fact_check: the comprehension takes the result of the
\* call for one claim and calls run_fact_check_with_analyzer for the next
\* claim, or returns the list after the last one
NextClaim ==
  /\ batch.active
  /\ pc = "returned"
  /\ LET out  == Append(batch.out, result[1])
         logs == Append(batch.logs, Log)
     IN  IF Len(out) < Len(batch.claims)
         THEN /\ pc' = "search"
              /\ call' = AnalyzerCall(batch.claims[Len(out) + 1],
                                      batch.max_articles_per_claim,
                                      batch.analyzer_mode)
              /\ result' = None
              /\ batch' = [batch EXCEPT !.out = out, !.logs = logs]
         ELSE /\ pc' = "returned"
              /\ call' = BatchCall
              /\ result' = Some(out)
              /\ batch' = [batch EXCEPT !.active = FALSE, !.out = out,
                                        !.logs = logs]
  /\ results' = <<>>
  /\ i' = 0
  /\ evidence_list' = <<>>
  /\ sources_list' = <<>>
  /\ error' = None
  /\ http' = None
  /\ trace' = <<>>
  /\ UNCHANGED <<defaults, loaded_from, before, config>>

\* Retry with the evidence and the sources of the failed call left on the
\* checker
Retry_keeps_lists ==
  /\ pc = "raised"
  /\ call.op \in {"run_fact_check", "run_fact_check_with_analyzer"}
  /\ ~batch.active
  /\ before' = error
  /\ pc' = "search"
  /\ results' = <<>>
  /\ i' = 0
  /\ result' = None
  /\ error' = None
  /\ http' = None
  /\ trace' = <<>>
  /\ UNCHANGED <<defaults, loaded_from, batch, config, call, evidence_list, sources_list>>

\* the caller of a single-claim call that raised calls the same checker
\* again with the same claim and arguments
Retry ==
  /\ pc = "raised"
  /\ call.op \in {"run_fact_check", "run_fact_check_with_analyzer"}
  /\ ~batch.active
  /\ before' = error
  /\ pc' = "search"
  /\ results' = <<>>
  /\ i' = 0
  /\ evidence_list' = <<>>
  /\ sources_list' = <<>>
  /\ result' = None
  /\ error' = None
  /\ http' = None
  /\ trace' = <<>>
  /\ UNCHANGED <<defaults, loaded_from, batch, config, call>>

Next ==
  \/ \E c \in Claims \cup {claim_cat_ran}, a \in ArticleArgs : run_fact_check(c, a)
  \/ \E c \in Claims, a \in ArticleArgs, m \in ModeArgs :
       run_fact_check_with_analyzer(c, a, m)
  \/ \E response \in SearchHttp : Search(response)
  \/ LoopSkip
  \/ \E response \in FetchHttp : LoopFetch(response)
  \/ AnalyzeHeuristic
  \/ \E ok \in BOOLEAN, b \in PipelineBackends : AnalyzeSemantic(ok, b)
  \/ \E e \in DirectEvidence, c \in Claims, b \in Backends : CallAnalyze(e, c, b)
  \/ \E e \in HeuristicEvidence, c \in HeuristicClaims :
       CallAnalyzeEvidence(e, c)
  \/ \E t \in ExtractTexts, c \in ExtractClaims : CallExtract(t, c)
  \/ Return

Spec == Init /\ [][Next]_vars

\* batches and repeated calls, explored with fewer answers of the
\* collaborators
NextRuns ==
  \/ \E c \in Claims, m \in RunsModeArgs :
       run_fact_check_with_analyzer(c, None, m)
  \/ \E cs \in Batches, m \in RunsModeArgs :
       run_multi_claim_fact_check(cs, None, m)
  \/ \E response \in RunsSearchHttp : Search(response)
  \/ LoopSkip
  \/ \E response \in RunsFetchHttp : LoopFetch(response)
  \/ AnalyzeHeuristic
  \/ \E ok \in BOOLEAN, b \in RunsBackends : AnalyzeSemantic(ok, b)
  \/ NextClaim
  \/ Retry
  \/ Return

SpecRuns == Init /\ [][NextRuns]_vars

\* the config module from the import on: nothing is cached yet
InitConfig ==
  /\ config = None
  /\ pc = "idle"
  /\ call = NoCall
  /\ results = <<>>
  /\ i = 0
  /\ evidence_list = <<>>
  /\ sources_list = <<>>
  /\ result = None
  /\ error = None
  /\ http = None
  /\ trace = <<>>
  /\ batch = NoBatch
  /\ before = None
  /\ defaults = DEFAULTS
  /\ loaded_from = None

NextConfig ==
  \/ \E p \in PathArgs, f \in FileStates : load_config(p, f)
  \/ \E p \in PathArgs, f \in FileStates : get_config(p, f)
  \/ \E p \in PathArgs, f \in FileStates : WikipediaFactChecker(p, f)
  \/ Return

SpecConfig == InitConfig /\ [][NextConfig]_vars

(***************************************************************************)
(* Properties.                                                             *)
(***************************************************************************)
Orchestrators == {"run_fact_check", "run_fact_check_with_analyzer"}

\* the search request is the only request of the running orchestrator call
\* so far, so that http holds its outcome
SearchIsLatest ==
  /\ call.op \in Orchestrators
  /\ trace = <<Event("search", <<>>)>>
  /\ http # None

RateLimitOrTimeout(r) ==
  r.kind = "timeout" \/ (r.kind = "response" /\ r.status = 429)

\* a search that fails otherwise, or that delivers no candidates
NoCandidates(r) ==
  \/ r.kind = "conn_error"
  \/ r.kind = "response" /\ r.status >= 400 /\ r.status # 429
  \/ r.kind = "response" /\ r.status = 200
       /\ (~r.json.is_dict \/ r.json.search = <<>>)

\* C1: a search that is rate limited (429) or times out ends the
\* orchestrator call with WikipediaAPIError: no result is returned, and
\* neither a fetch nor an analyzer call has been made.
C1_SearchFailurePropagates ==
  (SearchIsLatest /\ RateLimitOrTimeout(http[1]))
    => /\ pc = "raised"
       /\ result = None
       /\ error # None
       /\ error[1].type = "WikipediaAPIError"
       /\ Events("fetch") = <<>>
       /\ Events("analyze") = <<>>
       /\ Events("analyze_evidence") = <<>>
       /\ evidence_list = <<>> /\ sources_list = <<>>

\* C1 witness: run_fact_check_with_analyzer ended by a rate-limited search
C1_Witness ==
  /\ call.op = "run_fact_check_with_analyzer"
  /\ SearchIsLatest
  /\ http[1] = HttpResponse(429, <<>>)
  /\ pc = "raised"
  /\ error[1].status_code = Some(429)

\* the latest event of the running call is a fetch, so that http holds the
\* outcome of that fetch request
FetchIsLatest ==
  /\ call.op \in Orchestrators
  /\ trace # <<>>
  /\ trace[Len(trace)].ev = "fetch"
  /\ http # None

\* C2: a fetch that fails in any way (timeout, HTTP error, 429, malformed
\* payload) or yields an empty body gives the empty string and is skipped:
\* the call does not raise, and a raised orchestrator call is always one
\* whose search was rate limited or timed out.
C2_FetchFailureSkipped ==
  /\ (FetchIsLatest /\ FetchFailed(http[1]))
       => /\ pc # "raised"
          /\ trace[Len(trace)].arg[2] = <<>>
  /\ (call.op \in Orchestrators /\ pc = "raised")
       => (SearchIsLatest /\ RateLimitOrTimeout(http[1]))

\* C3: a search without candidates, or one that fails otherwise than by
\* rate limit or timeout, ends the orchestrator call with verdict
\* INSUFFICIENT_EVIDENCE, no evidence and no sources, and no fetch is made.
C3_NoCandidatesShortCircuit ==
  (SearchIsLatest /\ NoCandidates(http[1]))
    => /\ pc = "returned"
       /\ error = None
       /\ result # None
       /\ result[1].verdict = V_INSUFFICIENT_EVIDENCE
       /\ result[1].evidence = <<>>
       /\ result[1].sources = <<>>
       /\ Events("fetch") = <<>>

\* C3 witness: a search answered with HTTP 500 in "llm" mode
C3_Witness ==
  /\ call.op = "run_fact_check_with_analyzer"
  /\ call.mode = S_llm
  /\ SearchIsLatest
  /\ http[1] = HttpResponse(500, <<>>)
  /\ pc = "returned"
  /\ result[1].verdict = V_INSUFFICIENT_EVIDENCE

\* the running call is run_fact_check_with_analyzer in "llm" mode
SemanticCall ==
  call.op = "run_fact_check_with_analyzer" /\ call.mode = S_llm

\* the evidence the analyzer of the running call was given
AnalyzedEvidence == IF call.op = "analyze" THEN call.evidence ELSE evidence_list

\* importing or constructing the analyzer failed
ImportFailed == \E k \in 1..Len(trace) : trace[k] = Event("import", FALSE)

\* the backend was called and the call raised
BackendRaised ==
  /\ Events("backend") # <<>>
  /\ call_backend(LLMAnalyzer(config), Events("backend")[1].arg).exc # None

\* the message of the exception the backend call raised
BackendMessage ==
  call_backend(LLMAnalyzer(config), Events("backend")[1].arg).exc[1].msg

\* the backend was called and replied with a text
BackendReplied ==
  /\ Events("backend") # <<>>
  /\ call_backend(LLMAnalyzer(config), Events("backend")[1].arg).exc = None

\* the text the backend replied with
Reply == Events("backend")[1].arg.reply

\* LLMAnalyzer.analyze was called and raised
AnalyzeRaised ==
  /\ Events("analyze") # <<>>
  /\ analyze(LLMAnalyzer(config), AnalyzedEvidence, call.claim,
             Events("analyze")[1].arg).exc # None

\* what analyze_evidence makes of the accumulated evidence
Heuristic == analyze_evidence(config, evidence_list, call.claim)

\* C4 as stated: in "llm" mode every failure of the analyzer, a failing
\* backend call included, gives the verdict and evidence of analyze_evidence.
C4_AnyFailureFallsBack ==
  (SemanticCall /\ (ImportFailed \/ BackendRaised \/ AnalyzeRaised))
    => /\ pc = "returned"
       /\ result[1].verdict = Heuristic[1]
       /\ result[1].evidence = Heuristic[2]

\* C4 amended: in "llm" mode the call returns on every analyzer failure.
\* A failure that leaves the analyzer as an exception (import, construction,
\* analyze raising) gives the verdict and evidence of analyze_evidence; a
\* failure of the backend call is absorbed by analyze and gives
\* INSUFFICIENT_EVIDENCE with all accumulated evidence, confidence 0 and the
\* explanation "Analysis unavailable: <reason>".
C4_FailureHandling ==
  SemanticCall =>
    /\ (ImportFailed \/ AnalyzeRaised)
         => /\ pc = "returned"
            /\ result[1].verdict = Heuristic[1]
            /\ result[1].evidence = Heuristic[2]
    /\ BackendRaised
         => /\ pc = "returned"
            /\ result[1].verdict = V_INSUFFICIENT_EVIDENCE
            /\ result[1].evidence = evidence_list
            /\ result[1].confidence = Some(0)
            /\ result[1].explanation = Some(M_unavailable \o BackendMessage)

\* C4 witness: the backend call fails on evidence the heuristic judges TRUE
C4_Witness ==
  /\ SemanticCall
  /\ pc = "returned"
  /\ BackendRaised
  /\ Heuristic[1] = V_TRUE
  /\ result[1].verdict = V_INSUFFICIENT_EVIDENCE
  /\ result[1].evidence # Heuristic[2]

\* C5: in "llm" mode, when constructing the analyzer or calling analyze
\* raises, the call returns what analyze_evidence gives on the accumulated
\* evidence, with the accumulated sources and without explanation and
\* confidence; nothing is raised.
C5_ExceptionFallsBack ==
  (SemanticCall /\ (ImportFailed \/ AnalyzeRaised))
    => /\ pc = "returned"
       /\ error = None
       /\ result = Some([ verdict     |-> Heuristic[1],
                          evidence    |-> Heuristic[2],
                          sources     |-> sources_list,
                          explanation |-> None,
                          confidence  |-> None ])
       /\ trace[Len(trace)].ev = "analyze_evidence"

\* C5 witness: analyze raises ValueError on evidence the heuristic judges TRUE
C5_Witness ==
  /\ SemanticCall
  /\ pc = "returned"
  /\ ~ImportFailed
  /\ AnalyzeRaised
  /\ sources_list # <<>>
  /\ result[1].verdict = V_TRUE
  /\ result[1].confidence = None

\* C6 as stated: a failing backend call makes analyze return the tuple of
\* the empty-evidence case but for the explanation, so with an empty list of
\* relevant evidence.
C6_BackendFailureEmptyTuple ==
  (call.op = "analyze" /\ call.evidence # <<>> /\ BackendRaised)
    => /\ pc = "returned"
       /\ result[1][1] = V_INSUFFICIENT_EVIDENCE
       /\ result[1][3] = 0
       /\ result[1][4] = <<>>
       /\ result[1][5] = <<>>

\* C6 amended: a failing backend call never leaves analyze as an exception;
\* analyze returns (INSUFFICIENT_EVIDENCE, "Analysis unavailable: <reason>",
\* 0, [], evidence), the last component being the evidence it was given.
C6_BackendFailureTuple ==
  (call.op = "analyze" /\ call.evidence # <<>> /\ BackendRaised)
    => /\ pc = "returned"
       /\ error = None
       /\ result = Some(<<V_INSUFFICIENT_EVIDENCE, M_unavailable \o BackendMessage,
                          0, <<>>, call.evidence>>)

\* C6 witness: analyze called with evidence and without an API key
C6_Witness ==
  /\ call.op = "analyze"
  /\ call.evidence # <<>>
  /\ pc = "returned"
  /\ BackendRaised
  /\ BackendMessage = E_openai_key
  /\ result[1][5] = call.evidence

\* the reply holds a JSON object: braces in order and valid JSON between
HasObject(text) == text.start >= 0 /\ text.end > text.start /\ text.valid

\* the reply cannot be parsed: no object, or a confidence that is null or
\* a string that is not a number
Unparsable(text) ==
  \/ ~HasObject(text)
  \/ text.obj.confidence = JNull
  \/ text.obj.confidence.t = "str" /\ PyInt(text.obj.confidence).exc # None

\* C7: whatever text the backend replies with, analyze returns normally,
\* and for a reply that cannot be parsed it returns INSUFFICIENT_EVIDENCE
\* with empty explanation, confidence 0 and no citations.
C7_ParsingNeverFails ==
  (call.op = "analyze" /\ BackendReplied)
    => /\ pc = "returned"
       /\ Unparsable(Reply)
            => /\ result[1][1] = V_INSUFFICIENT_EVIDENCE
               /\ result[1][2] = <<>>
               /\ result[1][3] = 0
               /\ result[1][4] = <<>>

\* the reply holds an object whose verdict is outside the four variants
VerdictOutside(text) ==
  /\ HasObject(text)
  /\ text.obj.verdict # JAbsent
  /\ Upper(PyStr(text.obj.verdict)) \notin VERDICTS

\* C8 as stated: an object with a verdict outside the four variants is
\* parsed to INSUFFICIENT_EVIDENCE with empty explanation, confidence 0 and
\* no citations.
C8_OutsideVerdictResetsAll ==
  (call.op = "analyze" /\ BackendReplied /\ VerdictOutside(Reply)
     /\ pc = "returned")
    => /\ result[1][1] = V_INSUFFICIENT_EVIDENCE
       /\ result[1][2] = <<>>
       /\ result[1][3] = 0
       /\ result[1][4] = <<>>

\* the explanation text of a reply object: str() of its value, "" if absent
ReplyExplanation(obj) ==
  IF obj.explanation = JAbsent THEN <<>>
  ELSE IF obj.explanation = JNull THEN S_None
  ELSE obj.explanation.s

\* n clamped to [0, 100]
Clamp(n) == IF n < 0 THEN 0 ELSE IF n > 100 THEN 100 ELSE n

\* C8 amended: an object with a verdict outside the four variants is parsed
\* to the verdict INSUFFICIENT_EVIDENCE only; the explanation stays the
\* explanation of the reply, and when the reply's confidence is an integer
\* the confidence is that integer clamped to [0, 100] (0 when confidence
\* reporting is off) and the citations are the first five non-empty
\* citations of the reply.
C8_OutsideVerdictCoerced ==
  (call.op = "analyze" /\ BackendReplied /\ VerdictOutside(Reply)
     /\ pc = "returned")
    => /\ result[1][1] = V_INSUFFICIENT_EVIDENCE
       /\ result[1][2] = ReplyExplanation(Reply.obj)
       /\ Reply.obj.confidence.t = "int"
            => /\ result[1][3] = IF config.confidence_enabled
                                 THEN Clamp(Reply.obj.confidence.n) ELSE 0
               /\ result[1][4] =
                    IF Reply.obj.citations = ManyCitations
                    THEN <<<<"a">>, <<"a">>, <<"a">>, <<"a">>, <<"7">>>>
                    ELSE <<>>

\* C8 witness: the verdict "MAYBE" with explanation, confidence, citations
C8_Witness ==
  /\ call.op = "analyze"
  /\ pc = "returned"
  /\ BackendReplied
  /\ Reply.valid
  /\ Reply.obj.verdict = JStr(S_MAYBE)
  /\ Reply.obj.citations = ManyCitations
  /\ result[1][1] = V_INSUFFICIENT_EVIDENCE
  /\ result[1][2] = S_ok
  /\ result[1][3] = 55
  /\ Len(result[1][4]) = MaxCitations

\* the verdict of the result of the running call
ResultVerdict ==
  IF call.op \in Orchestrators THEN result[1].verdict ELSE result[1][1]

\* C9: the verdict of every result (analyze_evidence, LLMAnalyzer.analyze,
\* run_fact_check, run_fact_check_with_analyzer in any mode and on any
\* path) is one of TRUE, FALSE, MIXED, INSUFFICIENT_EVIDENCE.
C9_VerdictInDomain ==
  (result # None
     /\ call.op \in Orchestrators \cup {"analyze", "analyze_evidence"})
    => ResultVerdict \in VERDICTS

\* C9 witness: the backend replies "MAYBE" to an orchestrated "llm" call
C9_Witness ==
  /\ SemanticCall
  /\ pc = "returned"
  /\ BackendReplied
  /\ Reply.valid
  /\ Reply.obj.verdict = JStr(S_MAYBE)
  /\ result[1].verdict = V_INSUFFICIENT_EVIDENCE
  /\ result[1].evidence # <<>>

\* the confidence the result of the running call carries, None if it
\* carries none
ResultConfidence ==
  IF call.op = "run_fact_check_with_analyzer" THEN result[1].confidence
  ELSE IF call.op = "analyze" THEN Some(result[1][3])
  ELSE None

\* the analyzer returned what it parsed from a reply with an integer
\* confidence
ParsedIntConfidence ==
  /\ call.op = "analyze" \/ SemanticCall
  /\ BackendReplied
  /\ HasObject(Reply)
  /\ Reply.obj.confidence.t = "int"

\* C10: a confidence carried by a result is an integer in [0, 100]; a
\* parsed integer confidence below 0 gives 0 and one above 100 gives 100
\* (with confidence reporting off the value is 0).
C10_ConfidenceInRange ==
  (result # None /\ ResultConfidence # None)
    => /\ ResultConfidence[1] \in 0..100
       /\ ParsedIntConfidence
            => ResultConfidence[1] =
                 IF config.confidence_enabled
                 THEN Clamp(Reply.obj.confidence.n) ELSE 0

\* C10 witness: an orchestrated "llm" call whose reply carries a confidence
\* above 100
C10_Witness ==
  /\ SemanticCall
  /\ pc = "returned"
  /\ config.confidence_enabled
  /\ ParsedIntConfidence
  /\ Reply.obj.confidence.n > 100
  /\ result[1].confidence = Some(100)


\* the running call is LLMAnalyzer.analyze, called on its own
DirectAnalyze == call.op = "analyze"

\* C11: LLMAnalyzer.analyze called with an empty evidence list returns
\* (INSUFFICIENT_EVIDENCE, "No evidence was provided to evaluate the claim.",
\* 0, [], []) whatever the claim, the provider and the backend would have
\* done, and the backend is not called.
C11_EmptyEvidenceShortCircuit ==
  (DirectAnalyze /\ call.evidence = <<>>) =>
    /\ pc = "returned"
    /\ error = None
    /\ result = Some(<<V_INSUFFICIENT_EVIDENCE, M_no_evidence, 0, <<>>, <<>>>>)
    /\ Events("backend") = <<>>

\* analyze was called with no evidence, with the ollama provider and a
\* backend that would have answered with a verdict TRUE
C11_Witness ==
  /\ DirectAnalyze /\ call.evidence = <<>>
  /\ LLMAnalyzer(config).provider = S_ollama
  /\ Len(Events("analyze")) = 1
  /\ LET b == Events("analyze")[1].arg
     IN  /\ b.package /\ b.network /\ b.reply.valid
         /\ b.reply.obj.verdict = JStr(V_TRUE)
  /\ pc = "returned"


\* the running call is extract_relevant_sentences, called on its own
DirectExtract == call.op = "extract_relevant_sentences"

\* the sentences of a text: its pieces between periods followed by whitespace
SentencesOf(text) == SplitSentences(text, <<>>)

\* the sentence holds, as a substring and whatever the case, a
\* whitespace-separated word of the claim of at least minKeywordLength
\* characters
HoldsKeyword(sentence, claim) ==
  \E kw \in Range(Split(Lower(claim))) :
    /\ Len(kw) >= config.min_keyword_length
    /\ Contains(Lower(sentence), kw)

\* the positions of the sentences of the text that hold a keyword
RelevantPositions(text, claim) ==
  {k \in 1..Len(SentencesOf(text)) : HoldsKeyword(SentencesOf(text)[k], claim)}

\* the position of the j-th relevant sentence of the text
NthRelevant(text, claim, j) ==
  CHOOSE k \in RelevantPositions(text, claim) :
    Cardinality({m \in RelevantPositions(text, claim) : m <= k}) = j

\* C12: extract_relevant_sentences(body, claim) returns exactly the
\* sentences of the body that hold a claim keyword of at least
\* minKeywordLength characters, in document order, cut to the first
\* maxSentences of them; so the result is never longer than maxSentences,
\* every returned sentence holds such a keyword, and an empty body or an
\* empty claim gives the empty sequence.
C12_ExtractorExact ==
  (DirectExtract /\ pc = "returned") =>
    LET out == result[1]
        rel == RelevantPositions(call.text, call.claim)
        max == config.max_evidence_sentences
    IN  /\ Len(out) <= max
        /\ Len(out) = (IF Cardinality(rel) < max THEN Cardinality(rel) ELSE max)
        /\ \A j \in 1..Len(out) :
             /\ out[j] = SentencesOf(call.text)[NthRelevant(call.text, call.claim, j)]
             /\ HoldsKeyword(out[j], call.claim)
        /\ (call.text = <<>> \/ call.claim = <<>>) => out = <<>>

\* a call that found two relevant sentences and returned the first one only,
\* maxSentences being 1
C12_Witness ==
  /\ DirectExtract /\ pc = "returned"
  /\ config.max_evidence_sentences = 1
  /\ Cardinality(RelevantPositions(call.text, call.claim)) = 2
  /\ result[1] = <<SentencesOf(call.text)[1]>>


\* the running call is analyze_evidence, called on its own, and has returned
DirectHeuristic == call.op = "analyze_evidence" /\ pc = "returned"

\* the sentences of the evidence that analyze_evidence puts on the list
SentencesOn(list) ==
  SelectSeq(call.evidence,
            LAMBDA s : SentenceClass(config, s, call.claim) = list)

\* C13: analyze_evidence decides from the emptiness of the supporting and
\* contradicting lists alone: both non-empty gives MIXED with the supporting
\* sentences followed by the contradicting ones, only supporting gives TRUE
\* with them, only contradicting gives FALSE with them, both empty gives
\* INSUFFICIENT_EVIDENCE with no evidence; so the empty list gives
\* (INSUFFICIENT_EVIDENCE, []), and no input makes it raise.
C13_VerdictPriority ==
  (call.op = "analyze_evidence") =>
    LET sup == SentencesOn("supporting")
        con == SentencesOn("contradicting")
    IN  /\ pc = "returned" /\ error = None
        /\ (sup # <<>> /\ con # <<>>) => result = Some(<<V_MIXED, sup \o con>>)
        /\ (sup # <<>> /\ con = <<>>) => result = Some(<<V_TRUE, sup>>)
        /\ (sup = <<>> /\ con # <<>>) => result = Some(<<V_FALSE, con>>)
        /\ (sup = <<>> /\ con = <<>>) =>
             result = Some(<<V_INSUFFICIENT_EVIDENCE, <<>>>>)
        /\ call.evidence = <<>> =>
             result = Some(<<V_INSUFFICIENT_EVIDENCE, <<>>>>)

\* a contradicting sentence came before a supporting one and the verdict is
\* MIXED, the supporting sentence first
C13_Witness ==
  /\ DirectHeuristic
  /\ call.claim = claim_died
  /\ call.evidence = <<e_never, e_died>>
  /\ result = Some(<<V_MIXED, <<e_died, e_never>>>>)

\* the sentence holds, as a substring and whatever the case, a
\* whitespace-separated word of the claim of more than minKeywordLength
\* characters
HoldsClaimWord(sentence, claim) ==
  \E w \in Range(Split(Lower(claim))) :
    /\ Len(w) > config.min_keyword_length
    /\ Contains(Lower(sentence), w)

\* the sentence holds one of the eleven negation words as a substring
HoldsNegation(sentence) ==
  \E neg \in {W_not, W_no, W_never, W_didnt, W_doesnt, W_wasnt, W_werent,
              W_false, W_incorrect, W_neither, W_none} :
    Contains(Lower(sentence), neg)

\* the verdict and evidence that follow from two lists
Decide(sup, con) ==
  IF sup # <<>> /\ con # <<>> THEN <<V_MIXED, sup \o con>>
  ELSE IF sup # <<>> THEN <<V_TRUE, sup>>
  ELSE IF con # <<>> THEN <<V_FALSE, con>>
  ELSE <<V_INSUFFICIENT_EVIDENCE, <<>>>>

\* C18: analyze_evidence classifies by two substring tests: a sentence with
\* a claimWord (a claim word longer than minKeywordLength) and no negation
\* word is supporting, one with a claimWord and a negation word is
\* contradicting, both lists in input order; a TRUE result holds exactly the
\* sentences with a claimWord and no negation, and when every sentence of a
\* non-empty list is one the result is TRUE with the whole input in its
\* order.
C18_SentenceClassification ==
  DirectHeuristic =>
    LET ev  == call.evidence
        sup == SelectSeq(ev, LAMBDA s : HoldsClaimWord(s, call.claim)
                                          /\ ~HoldsNegation(s))
        con == SelectSeq(ev, LAMBDA s : HoldsClaimWord(s, call.claim)
                                          /\ HoldsNegation(s))
    IN  /\ (\A k \in 1..Len(ev) : HoldsClaimWord(ev[k], call.claim)) =>
             result = Some(Decide(sup, con))
        /\ result[1][1] = V_TRUE => result[1][2] = sup
        /\ (ev # <<>> /\ sup = ev) => result = Some(<<V_TRUE, ev>>)

\* "noon" holds the negation word "no": the sentence is contradicting, and
\* the verdict is MIXED
C18_Witness ==
  /\ DirectHeuristic
  /\ call.claim = claim_died
  /\ call.evidence = <<e_noon, e_died>>
  /\ result = Some(<<V_MIXED, <<e_died, e_noon>>>>)

\* the claim text after the first "in ", without '?' and surrounding
\* whitespace; empty when the claim has no "in "
LocationOf(claim) ==
  LET k == Find(Lower(claim), <<"i", "n", " ">>)
  IN  IF k = 0 THEN <<>>
      ELSE Strip(RemoveChar(From(Lower(claim), k + 3), "?"))

\* the rule that puts a sentence without claimWord on the contradicting list
ChinaRule(sentence, claim) ==
  /\ \/ Contains(Lower(claim), <<"i", "s", " ", "i", "n">>)
     \/ Contains(Lower(claim),
                 <<"l", "o", "c", "a", "t", "e", "d", " ", "i", "n">>)
  /\ LocationOf(claim) # <<>>
  /\ LocationOf(claim) # <<"c", "h", "i", "n", "a">>
  /\ Contains(Lower(sentence), <<"c", "h", "i", "n", "a">>)

\* C19: a sentence with no claimWord is contradicting exactly when the
\* lower-cased claim contains "is in" or "located in", the location is
\* non-empty and not "china", and the sentence contains "china"; otherwise
\* it is discarded. It is never supporting, and negation words play no part.
C19_ChinaBranch ==
  DirectHeuristic =>
    LET ev  == call.evidence
        con == SelectSeq(ev, LAMBDA s : ChinaRule(s, call.claim))
    IN  (\A k \in 1..Len(ev) : ~HoldsClaimWord(ev[k], call.claim)) =>
          result = Some(Decide(<<>>, con))

\* with the claim "it is in usa" a sentence naming China contradicts, with
\* or without a negation word, and a sentence not naming it is dropped
C19_Witness ==
  /\ DirectHeuristic
  /\ call.claim = claim_usa
  /\ \E other \in {e_not_china, e_china} :
       /\ call.evidence = <<e_ran, other>>
       /\ result = Some(<<V_FALSE, <<other>>>>)


\* the document ids of a sources list are pairwise different
DistinctIds(sources) ==
  \A j, k \in 1..Len(sources) : j # k => sources[j].pageid # sources[k].pageid

\* C14: within one claim's processing and result, the sources list holds at
\* most one entry per document id, for every search result list, one that
\* lists the same id twice included.
C14_SourcesUnique ==
  (call.op \in Orchestrators) =>
    /\ DistinctIds(sources_list)
    /\ pc = "returned" => DistinctIds(result[1].sources)

\* the first maxDocuments search results that have a document id: the
\* candidates to fetch, in search-result order
Candidates == SelectSeq(SubSeq(results, 1, IF call.n < Len(results) THEN call.n
                                           ELSE Len(results)),
                        LAMBDA e : e.pageid # None)

\* the bodies the fetches of the running call delivered, in order
FetchedBodies ==
  [k \in 1..Len(Events("fetch")) |-> Events("fetch")[k].arg[2]]

RECURSIVE SourcesOf(_, _)
\* one entry {title, pageid, url} per entry with a non-empty body, in order
SourcesOf(entries, bodies) ==
  IF entries = <<>> \/ bodies = <<>> THEN <<>>
  ELSE (IF Head(bodies) # <<>>
        THEN << [ title  |-> Head(entries).title,
                  pageid |-> Head(entries).pageid[1],
                  url    |-> URL_PREFIX \o NatToStr(Head(entries).pageid[1]) ] >>
        ELSE <<>>)
       \o SourcesOf(Tail(entries), Tail(bodies))

\* the call went through the fallback from the semantic analyzer
FellBack ==
  /\ call.op = "run_fact_check_with_analyzer" /\ call.mode = S_llm
  /\ Events("analyze_evidence") # <<>>

\* C15: when the search returned candidates the sources of the result are,
\* in search-result order, one entry {title, pageid, url} for each of the
\* first maxDocuments candidates whose fetched body was non-empty, relevant
\* or not; a document whose fetch failed or gave an empty body is not among
\* them; on the heuristic, semantic and fallback paths alike.
C15_SourcesExact ==
  (call.op \in Orchestrators /\ pc = "returned" /\ results # <<>>) =>
    /\ Len(FetchedBodies) = Len(Candidates)
    /\ result[1].sources = SourcesOf(Candidates, FetchedBodies)

\* on the fallback path: the first document had a body without any relevant
\* sentence and is a source, the second had an empty body and is none
C15_Witness ==
  /\ call.op \in Orchestrators /\ pc = "returned" /\ FellBack
  /\ Len(Candidates) = 2
  /\ FetchedBodies[1] # <<>> /\ FetchedBodies[2] = <<>>
  /\ result[1].evidence = <<>>
  /\ Len(result[1].sources) = 1
  /\ result[1].sources[1].pageid = Candidates[1].pageid[1]

RECURSIVE ExtractsOf(_, _)
\* the extractor's output for each non-empty body, concatenated in order
ExtractsOf(bodies, claim) ==
  IF bodies = <<>> THEN <<>>
  ELSE (IF Head(bodies) # <<>>
        THEN extract_relevant_sentences(config, Head(bodies), claim)
        ELSE <<>>)
       \o ExtractsOf(Tail(bodies), claim)

\* an analyzer has run in the call
Analyzed == Events("analyze") # <<>> \/ Events("analyze_evidence") # <<>>

\* C20: in one claim's processing the search comes first, then the fetches,
\* then the analysis: the fetches are for the candidates among the first
\* maxDocuments search results, in that order and for no later one; the
\* evidence handed to the analyzer is the concatenation, in that order, of
\* the extractor's output for each fetched non-empty body; each analyzer
\* runs at most once, after the last fetch.
C20_StepOrder ==
  (call.op \in Orchestrators) =>
    LET fetches == Events("fetch")
    IN  /\ trace # <<>> => trace[1].ev = "search"
        /\ \A k \in 2..Len(trace) : trace[k].ev # "search"
        /\ \A k \in 1..Len(trace) :
             trace[k].ev = "fetch" => \A m \in 2..k : trace[m].ev = "fetch"
        /\ Len(fetches) <= Len(Candidates)
        /\ \A k \in 1..Len(fetches) :
             fetches[k].arg[1] = Candidates[k].pageid[1]
        /\ evidence_list = ExtractsOf(FetchedBodies, call.claim)
        /\ Len(Events("analyze")) <= 1
        /\ Len(Events("analyze_evidence")) <= 1
        /\ Analyzed =>
             /\ pc = "returned"
             /\ Len(fetches) = Len(Candidates)
             /\ Events("analyze_evidence") # <<>> =>
                  <<result[1].verdict, result[1].evidence>> =
                    analyze_evidence(config, ExtractsOf(FetchedBodies, call.claim),
                                     call.claim)
             /\ Events("analyze_evidence") = <<>> =>
                  result[1].evidence = ExtractsOf(FetchedBodies, call.claim)
        /\ (pc = "returned" /\ results # <<>>) => Analyzed

\* two search results with maxDocuments = 1: the first was fetched, the
\* second was not, and the analyzer got the sentences of the first body
C20_Witness ==
  /\ call.op \in Orchestrators /\ pc = "returned"
  /\ call.n = 1 /\ Len(results) = 2
  /\ results[2].pageid # None
  /\ Len(Events("fetch")) = 1
  /\ trace[Len(trace)].ev \in {"analyze", "backend", "analyze_evidence"}
  /\ result[1].evidence # <<>>


\* the candidates to fetch of a finished call
CandidatesIn(log) ==
  SelectSeq(SubSeq(log.results, 1, IF log.call.n < Len(log.results)
                                   THEN log.call.n ELSE Len(log.results)),
            LAMBDA e : e.pageid # None)

\* the events of a finished call with the given name
EventsIn(log, ev) == SelectSeq(log.trace, LAMBDA e : e.ev = ev)

\* the bodies the fetches of a finished call delivered, in order
BodiesIn(log) ==
  [k \in 1..Len(EventsIn(log, "fetch")) |-> EventsIn(log, "fetch")[k].arg[2]]

\* the result of a single-claim call as a function of its claim, its
\* arguments, the configuration and what the Retriever, the import and the
\* backend answered during the call
ResultOf(log) ==
  LET claim  == log.call.claim
      ev     == ExtractsOf(BodiesIn(log), claim)
      src    == SourcesOf(CandidatesIn(log), BodiesIn(log))
      heur   == analyze_evidence(config, ev, claim)
      sem    == IF EventsIn(log, "import")[1].arg
                THEN analyze(LLMAnalyzer(config), ev, claim,
                             EventsIn(log, "analyze")[1].arg)
                ELSE Raise(Exception("ImportError", <<>>))
  IN  IF log.call.op = "run_fact_check"
      THEN (IF log.results = <<>>
            THEN [verdict |-> V_INSUFFICIENT_EVIDENCE, evidence |-> <<>>,
                  sources |-> <<>>]
            ELSE [verdict |-> heur[1], evidence |-> heur[2], sources |-> src])
      ELSE IF log.results = <<>>
      THEN [verdict |-> V_INSUFFICIENT_EVIDENCE, evidence |-> <<>>,
            sources |-> <<>>, explanation |-> None, confidence |-> None]
      ELSE IF log.call.mode # S_llm \/ sem.exc # None
      THEN [verdict |-> heur[1], evidence |-> heur[2], sources |-> src,
            explanation |-> None, confidence |-> None]
      ELSE [verdict |-> sem.ret[1], evidence |-> sem.ret[5], sources |-> src,
            explanation |-> IF sem.ret[2] # <<>> THEN Some(sem.ret[2]) ELSE None,
            confidence |-> Some(sem.ret[3])]

\* the exception of a single-claim call that raised, as a function of the
\* Retriever's last answer
ErrorOf(log) ==
  IF EventsIn(log, "fetch") = <<>>
  THEN search_wikipedia(log.http[1]).exc
  ELSE get_page_content(log.http[1]).exc

\* the arguments of the batch, as the call for one claim computes them
BatchMode ==
  Lower(IF batch.analyzer_mode # None /\ batch.analyzer_mode[1] # <<>>
        THEN batch.analyzer_mode[1] ELSE config.analyzer_mode)

BatchN ==
  IF batch.max_articles_per_claim # None
  THEN batch.max_articles_per_claim[1] ELSE config.max_articles

\* C16: run_multi_claim_fact_check processes the claims one at a time in
\* input order, each by run_fact_check_with_analyzer with the batch's
\* arguments; when every claim is processed without error it returns a list
\* as long as claims whose i-th element is the result of that call for the
\* i-th claim, a function of that claim's own processing and of no other
\* claim of the batch.
C16_BatchMapsSingle ==
  /\ batch.active =>
       /\ Len(batch.out) < Len(batch.claims)
       /\ call.op = "run_fact_check_with_analyzer"
       /\ call.claim = batch.claims[Len(batch.out) + 1]
       /\ call.mode = BatchMode /\ call.n = BatchN
  /\ Len(batch.logs) = Len(batch.out)
  /\ \A k \in 1..Len(batch.out) :
       /\ batch.logs[k].call.op = "run_fact_check_with_analyzer"
       /\ batch.logs[k].call.claim = batch.claims[k]
       /\ batch.logs[k].call.mode = BatchMode
       /\ batch.logs[k].call.n = BatchN
       /\ batch.out[k] = ResultOf(batch.logs[k])
  /\ (call.op = "run_multi_claim_fact_check") =>
       /\ pc = "returned"
       /\ result = Some(batch.out)
       /\ Len(batch.out) = Len(batch.claims)

\* a batch of two different claims returned two results, the first with
\* evidence and a source, the second with neither
C16_Witness ==
  /\ call.op = "run_multi_claim_fact_check" /\ pc = "returned"
  /\ Len(batch.claims) = 2 /\ batch.claims[1] # batch.claims[2]
  /\ Len(result[1]) = 2
  /\ result[1][1].evidence # <<>> /\ result[1][1].sources # <<>>
  /\ result[1][2].evidence = <<>> /\ result[1][2].sources = <<>>

\* a single-claim call is running, has returned or has raised
SingleCall == call.op \in Orchestrators /\ ~batch.active

\* C17: in any sequence of single-claim calls on one checker, calls that
\* raised included, a call starts with no evidence, source, result or error
\* of an earlier call, and its outcome is a function of its claim, its
\* arguments, the configuration and the answers received during the call;
\* so is the outcome of a call that repeats a failed one.
C17_CallsIndependent ==
  SingleCall =>
    /\ pc = "search" =>
         /\ results = <<>> /\ i = 0
         /\ evidence_list = <<>> /\ sources_list = <<>>
         /\ result = None /\ error = None
         /\ http = None /\ trace = <<>>
    /\ pc = "loop" =>
         /\ evidence_list = ExtractsOf(FetchedBodies, call.claim)
         /\ sources_list = SourcesOf(Candidates, FetchedBodies)
    /\ pc = "returned" => (result = Some(ResultOf(Log)) /\ error = None)
    /\ pc = "raised" => (error = ErrorOf(Log) /\ result = None)

\* a call that repeats a failed call and returns the evidence and the
\* source of its own fetches
C17_Witness ==
  /\ SingleCall /\ pc = "returned"
  /\ before # None
  /\ Len(result[1].sources) = 1
  /\ result[1].evidence # <<>>
  /\ result[1].evidence = ExtractsOf(FetchedBodies, call.claim)


\* what run_fact_check returns for the claim, the arguments and the
\* Retriever's answers of the running call
AsRunFactCheck == ResultOf([Log EXCEPT !.call.op = "run_fact_check"])

\* the running call is run_fact_check_with_analyzer in a mode other than
\* "llm", compared without regard to case
OtherMode ==
  call.op = "run_fact_check_with_analyzer" /\ Lower(call.mode) # S_llm

\* C21: for any claim and any answers of the Retriever, in every analyzer
\* mode other than "llm" run_fact_check_with_analyzer returns the verdict,
\* evidence and sources that run_fact_check returns for the same inputs,
\* with explanation and confidence None, raises what run_fact_check raises,
\* and neither imports, constructs nor calls the semantic analyzer.
C21_OtherModesAreHeuristic ==
  /\ (call.op = "run_fact_check" /\ pc = "returned") =>
       result = Some(AsRunFactCheck)
  /\ (call.op = "run_fact_check" /\ pc = "raised") => error = ErrorOf(Log)
  /\ OtherMode =>
       /\ Events("import") = <<>>
       /\ Events("analyze") = <<>>
       /\ Events("backend") = <<>>
       /\ pc = "returned" =>
            result = Some([ verdict     |-> AsRunFactCheck.verdict,
                            evidence    |-> AsRunFactCheck.evidence,
                            sources     |-> AsRunFactCheck.sources,
                            explanation |-> None,
                            confidence  |-> None ])
       /\ pc = "raised" => error = ErrorOf(Log)

\* a call in the mode "Semantic" returned the heuristic result: one
\* sentence of the evidence gathered was dropped as irrelevant
C21_Witness ==
  /\ OtherMode /\ pc = "returned"
  /\ call.mode \notin {S_keyword, S_llm}
  /\ result[1].verdict = V_TRUE
  /\ result[1].sources # <<>>
  /\ Len(result[1].evidence) < Len(evidence_list)
  /\ result[1].explanation = None /\ result[1].confidence = None


\* an orchestrated call returned what analyze_evidence made of the evidence
HeuristicRun ==
  /\ call.op \in Orchestrators /\ pc = "returned"
  /\ Events("analyze_evidence") # <<>>

\* every word of the claim has at most minKeywordLength characters, and the
\* claim contains neither "is in" nor "located in"
ShortWordsOnly(claim) ==
  /\ \A w \in Range(Split(Lower(claim))) : Len(w) <= config.min_keyword_length
  /\ ~Contains(Lower(claim), <<"i", "s", " ", "i", "n">>)
  /\ ~Contains(Lower(claim),
               <<"l", "o", "c", "a", "t", "e", "d", " ", "i", "n">>)

\* C23: the extractor accepts keywords of at least minKeywordLength
\* characters and the classifier only words longer than that, so a sentence
\* extracted through keywords of exactly that length alone is not counted
\* by claim-word match; and for a claim of short words only, without "is in"
\* and "located in", the heuristic pipeline returns INSUFFICIENT_EVIDENCE
\* with empty evidence whatever the documents, the sources still listing the
\* fetched non-empty documents.
C23_ThresholdAsymmetry ==
  HeuristicRun =>
    /\ \A k \in 1..Len(evidence_list) :
         ( /\ ~HoldsClaimWord(evidence_list[k], call.claim)
           /\ ~ChinaRule(evidence_list[k], call.claim) )
           => evidence_list[k] \notin Range(result[1].evidence)
    /\ ShortWordsOnly(call.claim) =>
         /\ result[1].verdict = V_INSUFFICIENT_EVIDENCE
         /\ result[1].evidence = <<>>
         /\ result[1].sources = SourcesOf(Candidates, FetchedBodies)

\* the claim "Cat ran": sentences were extracted through "cat" and "ran",
\* the result has no evidence and lists the source
C23_Witness ==
  /\ HeuristicRun
  /\ call.claim = claim_cat_ran
  /\ evidence_list # <<>>
  /\ \A k \in 1..Len(evidence_list) : HoldsKeyword(evidence_list[k], call.claim)
  /\ result[1].verdict = V_INSUFFICIENT_EVIDENCE
  /\ result[1].evidence = <<>>
  /\ result[1].sources # <<>>


\* the call for one claim of a batch has raised
BatchRaised == batch.active /\ pc = "raised"

\* the only step after the call for a claim of a batch raised: the caller
\* of the batch gets the exception, and nothing of the batch is left
BatchAbort ==
  BatchRaised =>
    /\ error # None /\ error[1].type = "WikipediaAPIError"
    /\ result = None
    /\ pc' = "idle"
    /\ result' = None
    /\ batch' = NoBatch
    /\ trace' = <<>>

\* C22: when the processing of the k-th claim of a batch raises
\* WikipediaAPIError, run_multi_claim_fact_check raises that error to its
\* caller: the results of the claims 1..k-1 are not returned, and there is
\* no search, fetch or analysis for a later claim.
C22_BatchAborts == [][BatchAbort]_vars

\* the search for the second claim of a batch of two raised after the first
\* claim had its result
C22_Witness ==
  /\ BatchRaised
  /\ Len(batch.claims) = 2 /\ Len(batch.out) = 1
  /\ trace = <<Event("search", <<>>)>>
  /\ error[1].type = "WikipediaAPIError"
  /\ result = None


\* a configuration is cached
Cached == config # None

\* one step of the config module
ConfigStep ==
  /\ defaults = DEFAULTS /\ defaults' = DEFAULTS
  /\ (Cached /\ pc = "idle"
        /\ call'.op \in {"get_config", "WikipediaFactChecker"}) =>
       /\ config' = config
       /\ trace' = <<>>
       /\ pc' = "returned"
       /\ call'.op = "get_config" => result' = Some(config)
       /\ call'.op = "WikipediaFactChecker" =>
            result'[1].max_articles = config.max_articles
  /\ (Cached /\ config' # config) => call'.op = "load_config"

\* C24: once a configuration is cached, every get_config(path), the one of
\* WikipediaFactChecker(config_path=...) with another path included, returns
\* the cached configuration without any request to the file system; only
\* load_config replaces the cached value; and the DEFAULTS table is never
\* modified by loading or merging.
C24_ConfigCached == [][ConfigStep]_vars

\* a checker constructed with another path than the one the cached
\* configuration was loaded from: nothing is read, the checker has the
\* cached max_articles
C24_Witness ==
  /\ call.op = "WikipediaFactChecker" /\ pc = "returned"
  /\ call.path = Some(Path("other.yaml"))
  /\ loaded_from = Some(CONFIG_PATH)
  /\ config = OverrideConfig
  /\ trace = <<>>
  /\ result[1].max_articles = 1

====
